---------------------------- MODULE Spec2Model ----------------------------
(***************************************************************************)
(* A model of the Autosherpa WhatsApp bot: the conversation store          *)
(* (conversation_state.py), the dispatcher process_text_message (main.py)  *)
(* and the four flow handlers (browse_car_flow.py, emi_flow.py,            *)
(* car_valuation_flow.py, service_booking_flow.py).                        *)
(*                                                                         *)
(* The LLM collaborators (intent extraction, flow routing, the analyzers)  *)
(* and the database are oracles: every result their interface allows is    *)
(* drawn nondeterministically.  Text replies are modelled by a tag that    *)
(* names the reply.                                                        *)
(***************************************************************************)
EXTENDS Integers, Sequences, FiniteSets, TLC

VARIABLES
    store,      \* ConversationManager._states : user id -> record
    inbox,      \* the text message handed to process_text_message, or None
    last,       \* what the last run of process_text_message did (observation)
    d_intent,   \* detect_flow_switch call frame: intent_result
    d_message,  \*                                message
    d_flow,     \*                                current_flow
    d_step,     \*                                current_step
    d_result,   \*                                returned value
    d_pc,       \* "idle" | "called" | "returned"
    llm,        \* the field-extraction collaborator: "flaky" (each call answers or
                \* fails) | "down" (every call fails)
    call,       \* the arguments of a function called on its own (else {})
    result,     \* the set holding the value it returned, {} before
    tasks,      \* process_text_message coroutines in flight: task id -> frame
    bookings    \* the test-drive and service bookings the database holds

vars ==
    <<store, inbox, last, d_intent, d_message, d_flow, d_step, d_result, d_pc, llm,
      call, result, tasks, bookings>>
mainVars == <<store, inbox, last>>
detectVars == <<d_intent, d_message, d_flow, d_step, d_result, d_pc>>
callVars == <<call, result>>
taskVars == <<tasks, bookings>>

\* Python's None (also: an absent key read with dict.get)
None == "None"

BROWSE == "browse_car"
EMI == "emi"
VALUATION == "car_valuation"
SERVICE == "service_booking"

\* main.py VALID_FLOWS
VALID_FLOWS == {BROWSE, VALUATION, EMI, SERVICE}

---------------------------------------------------------------------------
(* str.lower(), str.strip() and the substring test `k in t` on ASCII text *)

UpperChars == "ABCDEFGHIJKLMNOPQRSTUVWXYZ"
LowerChars == "abcdefghijklmnopqrstuvwxyz"

LowerChar(c) ==
    CASE c = "A" -> "a" [] c = "B" -> "b" [] c = "C" -> "c" [] c = "D" -> "d"
      [] c = "E" -> "e" [] c = "F" -> "f" [] c = "G" -> "g" [] c = "H" -> "h"
      [] c = "I" -> "i" [] c = "J" -> "j" [] c = "K" -> "k" [] c = "L" -> "l"
      [] c = "M" -> "m" [] c = "N" -> "n" [] c = "O" -> "o" [] c = "P" -> "p"
      [] c = "Q" -> "q" [] c = "R" -> "r" [] c = "S" -> "s" [] c = "T" -> "t"
      [] c = "U" -> "u" [] c = "V" -> "v" [] c = "W" -> "w" [] c = "X" -> "x"
      [] c = "Y" -> "y" [] c = "Z" -> "z"
      [] OTHER -> c

RECURSIVE Lower(_)
Lower(s) ==
    IF Len(s) = 0 THEN ""
    ELSE LowerChar(SubSeq(s, 1, 1)) \o Lower(SubSeq(s, 2, Len(s)))

RECURSIVE LStrip(_)
LStrip(s) ==
    IF Len(s) > 0 /\ SubSeq(s, 1, 1) = " " THEN LStrip(SubSeq(s, 2, Len(s))) ELSE s

RECURSIVE RStrip(_)
RStrip(s) ==
    IF Len(s) > 0 /\ SubSeq(s, Len(s), Len(s)) = " "
    THEN RStrip(SubSeq(s, 1, Len(s) - 1)) ELSE s

Strip(s) == RStrip(LStrip(s))

Contains(t, k) ==
    \E i \in 1..(Len(t) - Len(k) + 1) : SubSeq(t, i, i + Len(k) - 1) = k

ContainsAny(t, ks) == \E k \in ks : Contains(t, k)

---------------------------------------------------------------------------
(* conversation_state.py: exit and short-response tests *)

EXIT_KEYWORDS == {"back", "menu", "main menu", "exit", "cancel", "quit", "stop", "done"}

is_exit_request(message) == ContainsAny(Strip(Lower(message)), EXIT_KEYWORDS)

short_responses ==
    {"no", "n", "yes", "y", "ok", "okay", "sure", "fine", "alright",
     "change", "modify", "different", "new", "restart", "back",
     "1", "2", "3", "4", "5"}

ShortLen == 3

is_short_response_vocab_only(message) == Strip(Lower(message)) \in short_responses

is_short_response(message) ==
    LET message_lower == Strip(Lower(message))
    IN  message_lower \in short_responses \/ Len(message_lower) <= ShortLen

---------------------------------------------------------------------------
(* Intent results: the object extract_intent returns, or None.            *)
(* entities is modelled by the set of its keys.                            *)

NoIntentResult == [present |-> FALSE, intent |-> "", entities |-> {}, confident |-> FALSE]

IntentResult(i, e, c) == [present |-> TRUE, intent |-> i, entities |-> e, confident |-> c]

---------------------------------------------------------------------------
(* conversation_state.py: detect_flow_switch *)

service_keywords ==
    {"book service", "service booking", "book a service", "servicing", "repair", "maintenance"}

is_service_intent(intent_lower, text_lower) ==
    \/ Contains(intent_lower, "service") /\ Contains(intent_lower, "booking")
    \/ Contains(intent_lower, "book") /\ Contains(text_lower, "service")
    \/ ContainsAny(text_lower, service_keywords)

emi_keywords ==
    {"emi", "loan", "installment", "finance", "down payment", "monthly payment", "calculate emi"}

is_emi_intent(intent_lower, text_lower) ==
    \/ Contains(intent_lower, "emi")
    \/ Contains(intent_lower, "loan") /\ Contains(text_lower, "calculate")
    \/ Contains(intent_lower, "finance") /\ Contains(text_lower, "calculate")
    \/ ContainsAny(text_lower, emi_keywords)

valuation_keywords ==
    {"value", "valuation", "price", "worth", "resale", "sell", "how much", "estimate", "appraise"}

is_valuation_intent(intent_lower, text_lower) ==
    \/ Contains(intent_lower, "value") \/ Contains(intent_lower, "valuation")
    \/ Contains(intent_lower, "price") /\ Contains(text_lower, "car")
    \/ ContainsAny(text_lower, valuation_keywords)

browse_keywords ==
    {"browse", "buy", "purchase", "looking for", "want to buy", "want a", "want", "search",
     "find car", "used car", "used cars", "show me", "i want"}

car_type_words == {"sedan", "suv", "hatchback", "coupe", "convertible", "car", "vehicle"}

car_entity_keys == {"car_type", "vehicle_type", "product"}

is_browse_intent(intent_lower, text_lower, entities) ==
    \/ Contains(intent_lower, "browse")
    \/ Contains(intent_lower, "buy") /\ Contains(text_lower, "car")
    \/ Contains(intent_lower, "purchase") /\ Contains(text_lower, "car")
    \/ ContainsAny(text_lower, browse_keywords)
    \/ /\ Contains(text_lower, "want") \/ Contains(text_lower, "looking")
       /\ ContainsAny(text_lower, car_type_words)
    \/ entities \cap car_entity_keys # {}

\* lines 253-261 with the branches in another order (emi tested before service)
target_flow_emi_first(intent_lower, text_lower, entities) ==
    IF is_emi_intent(intent_lower, text_lower) THEN EMI
    ELSE IF is_service_intent(intent_lower, text_lower) THEN SERVICE
    ELSE IF is_browse_intent(intent_lower, text_lower, entities) THEN BROWSE
    ELSE IF is_valuation_intent(intent_lower, text_lower) THEN VALUATION
    ELSE None

target_flow(intent_lower, text_lower, entities) ==
    IF is_service_intent(intent_lower, text_lower) THEN SERVICE
    ELSE IF is_emi_intent(intent_lower, text_lower) THEN EMI
    ELSE IF is_valuation_intent(intent_lower, text_lower) THEN VALUATION
    ELSE IF is_browse_intent(intent_lower, text_lower, entities) THEN BROWSE
    ELSE None

explicit_keywords(flow) ==
    CASE flow = SERVICE   -> {"book service", "service booking", "book a service"}
      [] flow = EMI       -> {"calculate emi", "emi calculation", "loan calculation"}
      [] flow = VALUATION -> {"car valuation", "value my car", "appraise"}
      [] flow = BROWSE    -> {"browse cars", "show me cars", "find cars"}
      [] OTHER            -> {}

\* the function as it is without the two in-flow protections (lines 209-210, 267-278)
detect_flow_switch_unguarded(intent_result, message, current_flow, current_step) ==
    IF ~intent_result.present THEN None
    ELSE LET target == target_flow(Lower(intent_result.intent), Lower(message),
                                   intent_result.entities)
         IN  IF target # None /\ target # current_flow THEN target ELSE None

\* the function without the explicit-phrase requirement (lines 267-278)
detect_flow_switch_loose(intent_result, message, current_flow, current_step) ==
    IF ~intent_result.present THEN None
    ELSE IF current_flow # None /\ is_short_response(message) THEN None
    ELSE LET target == target_flow(Lower(intent_result.intent), Lower(message),
                                   intent_result.entities)
         IN  IF target # None /\ target # current_flow THEN target ELSE None

detect_flow_switch(intent_result, message, current_flow, current_step) ==
    IF ~intent_result.present THEN None
    ELSE IF current_flow # None /\ is_short_response(message) THEN None
    ELSE LET intent_lower == Lower(intent_result.intent)
             text_lower == Lower(message)
             target == target_flow(intent_lower, text_lower, intent_result.entities)
         IN  IF target # None /\ target # current_flow
             THEN IF current_flow # None
                     /\ target \in VALID_FLOWS
                     /\ ~ContainsAny(text_lower, explicit_keywords(target))
                  THEN None
                  ELSE target
             ELSE None

---------------------------------------------------------------------------
(* conversation_state.py: ConversationState and ConversationManager       *)

\* a run with one user
OneUser == {"u1"}

\* the user ids of a run (every one of them has an entry in `store`, NoState
\* standing for an absent key of ConversationManager._states)
Users == DOMAIN store

max_history == 5

DataKeys ==
    {"awaiting_intent_confirmation", "pending_intent_message", "pending_intent",
     "brand", "budget", "car_type", "awaiting_confirmation",
     "pending_brand", "pending_budget", "pending_car_type", "cars", "selected_car",
     "test_drive_date", "test_drive_time", "test_drive_name", "test_drive_phone",
     "test_drive_has_dl", "test_drive_location", "test_drive_address",
     "down_payment", "tenure", "emi_data",
     "model", "year", "fuel_type", "condition", "valuation",
     "service", "make", "registration_number", "service_type",
     "customer_name", "phone_number"}

\* data = {} : every key absent (dict.get gives None)
EmptyData == [k \in DataKeys |-> None]

\* no entry for the user in _states
NoState == [exists |-> FALSE, flow_name |-> None, step |-> None,
            data |-> EmptyData, history |-> 0]

\* ConversationState(user_id=..., flow_name=f, step=s, data=d)
ConversationState(f, s, d) ==
    [exists |-> TRUE, flow_name |-> f, step |-> s,
     data |-> [k \in DataKeys |-> IF k \in DOMAIN d THEN d[k] ELSE None],
     history |-> 0]

\* get_state returns the stored object or None; `st` is the user's entry
set_state(st, new) == new

\* update_state(user_id, step=s): a missing record is created with flow_name None
update_state_step(st, s) ==
    IF st.exists THEN [st EXCEPT !.step = s]
    ELSE [NoState EXCEPT !.exists = TRUE, !.step = s]

\* clear_state that deletes the flow but keeps the rest of the record
clear_state_keep_step(st) ==
    IF st.exists THEN [st EXCEPT !.flow_name = None] ELSE st

\* clear_state(user_id): the user's entry is deleted
clear_state(st) == NoState

\* a merge that keeps the stored value where the given one is None
update_data_keeping(st, upd) ==
    LET base == IF st.exists THEN st ELSE [NoState EXCEPT !.exists = TRUE]
    IN  [base EXCEPT !.data = [k \in DataKeys |->
                                  IF k \in DOMAIN upd /\ upd[k] # None
                                  THEN upd[k] ELSE base.data[k]]]

\* update_data(user_id, **upd)
update_data(st, upd) ==
    LET base == IF st.exists THEN st ELSE [NoState EXCEPT !.exists = TRUE]
    IN  [base EXCEPT !.data = [k \in DataKeys |->
                                  IF k \in DOMAIN upd THEN upd[k] ELSE base.data[k]]]

\* the history is modelled by its length, and the length is counted up to here
HistoryCounted == 1

\* add_message_to_history
add_message_to_history(st) ==
    LET base == IF st.exists THEN st ELSE [NoState EXCEPT !.exists = TRUE]
        n == base.history + 1
        kept == IF n > max_history THEN max_history ELSE n
    IN  [base EXCEPT !.history = IF kept > HistoryCounted THEN HistoryCounted ELSE kept]

Truthy(v) == v # None /\ v # "False" /\ v # ""

---------------------------------------------------------------------------
(* Outcomes of a handler run: the user's entry afterwards, the reply and  *)
(* the observable events of the run                                        *)

\* get_main_menu_message()
MAIN_MENU == "main_menu"

FLOW_SWITCH_PREFIX == "__FLOW_SWITCH__:"

Marker(flow) == FLOW_SWITCH_PREFIX \o flow

StartsWith(s, p) == Len(s) >= Len(p) /\ SubSeq(s, 1, Len(p)) = p

IsMarker(reply) == StartsWith(reply, FLOW_SWITCH_PREFIX)

\* the text up to the first ":" of s
RECURSIVE UntilColon(_)
UntilColon(s) ==
    IF s = "" \/ SubSeq(s, 1, 1) = ":" THEN ""
    ELSE SubSeq(s, 1, 1) \o UntilColon(SubSeq(s, 2, Len(s)))

\* response_text.split(":")[1]
MarkerTarget(reply) == UntilColon(SubSeq(reply, Len(FLOW_SWITCH_PREFIX) + 1, Len(reply)))

\* a step of a handler: done = the handler has returned `reply`;
\* ~done = control falls through to the code that follows
Part(st, reply, ev, done) == [st |-> st, reply |-> reply, ev |-> ev, done |-> done]

Done(st, reply, ev) == Part(st, reply, ev, TRUE)

Fall(st, ev) == Part(st, "", ev, FALSE)

\* sequential composition: run `next` on every partial outcome that fell through
Then(parts, next(_)) ==
    UNION {IF p.done THEN {p}
           ELSE {[q EXCEPT !.ev = p.ev \cup q.ev] : q \in next(p.st)} : p \in parts}

Digits == "0123456789"

IsDigit(c) == c \in {"0", "1", "2", "3", "4", "5", "6", "7", "8", "9"}

\* str.isdigit()
isdigit(s) == Len(s) > 0 /\ \A i \in 1..Len(s) : IsDigit(SubSeq(s, i, i))

HasDigit(s) == \E i \in 1..Len(s) : IsDigit(SubSeq(s, i, i))

\* len(re.sub(r'\D', '', s))
CountDigits(s) == Cardinality({i \in 1..Len(s) : IsDigit(SubSeq(s, i, i))})

DigitValue(c) == CHOOSE d \in 0..9 : SubSeq(Digits, d + 1, d + 1) = c

RECURSIVE DigitsValue(_)
DigitsValue(s) ==
    IF Len(s) = 0 THEN 0
    ELSE 10 * DigitsValue(SubSeq(s, 1, Len(s) - 1)) + DigitValue(SubSeq(s, Len(s), Len(s)))

\* int(s) for a string of digits; the code only compares the value with
\* menu ranges, years, tenures and prices, so a string of more than eight
\* digits is read as one value above all of them
ToInt(s) == IF Len(s) > 8 THEN 99999999 ELSE DigitsValue(s)

---------------------------------------------------------------------------
(* browse_car_flow.py: database lists, fallback extractors, oracles       *)

\* car_db.get_available_brands() / get_available_car_types()
available_brands == {"Honda"}
available_types == {"Hatchback", "Sedan"}

\* the budget tuple (min, max): the two amounts in rupees, None for a missing one
Budget(min_price, max_price) == min_price \o ":" \o max_price

\* min_price, max_price = budget
BudgetMin(budget) ==
    SubSeq(budget, 1, (CHOOSE i \in 1..Len(budget) : SubSeq(budget, i, i) = ":") - 1)

BudgetMax(budget) ==
    SubSeq(budget, (CHOOSE i \in 1..Len(budget) : SubSeq(budget, i, i) = ":") + 1,
           Len(budget))

\* the budget the analysis reports when it reports one: "up to 5 lakh"
BUDGET == Budget(None, "500000")

\* free text stored as given (message.strip()) is modelled by one value
TEXT == "text"

PHONE == "phone10"

CAR_LIST == "cars"

\* car_db.search_cars(...) returns this many cars when it finds any
NumCars == 1

CarAt(n) == IF n = 1 THEN "car1" ELSE IF n = 2 THEN "car2" ELSE "car3"

extract_from_list(message, items) ==
    LET message_lower == Lower(message)
        hits == {b \in items : \/ Contains(message_lower, Lower(b))
                               \/ Contains(Lower(b), message_lower)}
    IN  IF hits = {} THEN None ELSE CHOOSE b \in hits : TRUE

extract_brand_from_message(message) == extract_from_list(message, available_brands)

extract_car_type_from_message(message) == extract_from_list(message, available_types)

\* \d+ at position i: the digits that start there
RECURSIVE RunFrom(_, _)
RunFrom(s, i) ==
    IF i <= Len(s) /\ IsDigit(SubSeq(s, i, i))
    THEN SubSeq(s, i, i) \o RunFrom(s, i + 1)
    ELSE ""

\* \s* at position i: the position after the blanks that start there
RECURSIVE SkipBlanks(_, _)
SkipBlanks(s, i) ==
    IF i <= Len(s) /\ SubSeq(s, i, i) = " " THEN SkipBlanks(s, i + 1) ELSE i

\* the literal w stands at position i
LiteralAt(s, i, w) == i + Len(w) - 1 <= Len(s) /\ SubSeq(s, i, i + Len(w) - 1) = w

\* float(group) * 100000, written in rupees
RECURSIVE Lakhs(_)
Lakhs(digits) ==
    IF digits = "" THEN "0"
    ELSE IF SubSeq(digits, 1, 1) = "0" THEN Lakhs(SubSeq(digits, 2, Len(digits)))
    ELSE digits \o "00000"

\* (\d+) \s* unit  with the digits a found at a0: the group, or <<>> for no match
AmountEnd(s, a, a0, unit) ==
    IF a # "" /\ LiteralAt(s, SkipBlanks(s, a0 + Len(a)), unit) THEN <<a>> ELSE <<>>

AmountAt(s, a0, unit) == AmountEnd(s, RunFrom(s, a0), a0, unit)

Prepend(a, groups) == IF groups = <<>> THEN <<>> ELSE <<a>> \o groups

\* \s* sep \s* (\d+) \s* unit  after the digits a, from position s0 on
RangeRest(s, a, s0, sep, unit) ==
    IF LiteralAt(s, s0, sep)
    THEN Prepend(a, AmountAt(s, SkipBlanks(s, s0 + Len(sep)), unit))
    ELSE <<>>

RangeSep(s, a, a0, sep, unit) ==
    IF a = "" THEN <<>> ELSE RangeRest(s, a, SkipBlanks(s, a0 + Len(a)), sep, unit)

\* (\d+) \s* sep \s* (\d+) \s* unit  at a0: the two groups, or <<>>
RangeAt(s, a0, sep, unit) == RangeSep(s, RunFrom(s, a0), a0, sep, unit)

\* the patterns of lines 89-97 in their order: word \s* (\d+) \s* sep \s* (\d+) \s* unit,
\* and with sep None: word \s* (\d+) \s* unit
Pattern(word, sep, unit) == [word |-> word, sep |-> sep, unit |-> unit]

budget_patterns ==
    <<Pattern("", "-", "lakh"), Pattern("", "to", "lakh"),
      Pattern("between", "and", "lakh"), Pattern("under", None, "lakh"),
      Pattern("upto", None, "lakh"), Pattern("", None, "lakh"), Pattern("", None, "lac")>>

\* a match of pattern p that starts at i: its groups, or <<>>
PatternAt(s, i, p) ==
    IF ~LiteralAt(s, i, p.word) THEN <<>>
    ELSE IF p.sep = None THEN AmountAt(s, SkipBlanks(s, i + Len(p.word)), p.unit)
    ELSE RangeAt(s, SkipBlanks(s, i + Len(p.word)), p.sep, p.unit)

\* re.search: the match at the leftmost position from i on, <<>> when there is none
RECURSIVE Leftmost(_, _, _)
LeftmostOr(groups, s, i, p) == IF groups # <<>> THEN groups ELSE Leftmost(s, i + 1, p)
Leftmost(s, i, p) == IF i > Len(s) THEN <<>> ELSE LeftmostOr(PatternAt(s, i, p), s, i, p)

\* the groups of the first pattern, from the n-th on, that matches
RECURSIVE FirstPattern(_, _)
FirstPatternOr(groups, s, n) == IF groups # <<>> THEN groups ELSE FirstPattern(s, n + 1)
FirstPattern(s, n) ==
    IF n > Len(budget_patterns) THEN <<>>
    ELSE FirstPatternOr(Leftmost(s, 1, budget_patterns[n]), s, n)

\* (min, max) from the groups: float(g) * 100000 each, None for a missing minimum
BudgetOf(groups) ==
    IF groups = <<>> THEN None
    ELSE IF Len(groups) = 2 THEN Budget(Lakhs(groups[1]), Lakhs(groups[2]))
    ELSE Budget(None, Lakhs(groups[1]))

\* extract_budget_from_message (lines 84-110): the first pattern of the list
\* that matches decides
extract_budget_from_message(message) == BudgetOf(FirstPattern(Lower(message), 1))

\* the results a call of an analyze_*_message function can have: any of `results`,
\* and only the *AnalysisError ones (ok = FALSE) while the collaborator is down
Extraction(results) == IF llm = "down" THEN {a \in results : ~a.ok} ELSE results

\* analyze_browse_car_message: the result dict, or BrowseCarAnalysisError (ok = FALSE)
Analysis(b, g, t, ui, nc, q) ==
    [ok |-> TRUE, extracted_brand |-> b, extracted_budget |-> g, extracted_type |-> t,
     user_intent |-> ui, needs_clarification |-> nc, quoted |-> q]

AnalysisError == [Analysis(None, None, None, "", FALSE, None) EXCEPT !.ok = FALSE]

BrowseExtractions ==
    {Analysis(b, g, t, "asking_question", FALSE, None) :
        b \in {None, "Honda"}, g \in {None, BUDGET}, t \in {None, "Hatchback"}}

BrowseAnalyses ==
    BrowseExtractions
    \cup {Analysis(None, None, None, ui, FALSE, None) :
            ui \in {"providing_brand", "providing_type", "changing_criteria",
                    "selecting_car", "booking_test_drive", "confirming"}}
    \cup {Analysis("Honda", None, None, "changing_criteria", FALSE, None)}
    \cup {Analysis(None, None, None, "asking_question", TRUE, q) :
            q \in {None, "Honda", "Hatchback"}}
    \cup {Analysis("Honda", None, None, "providing_brand", TRUE, None),
          Analysis(None, BUDGET, None, "asking_question", TRUE, None),
          Analysis(None, None, "Hatchback", "providing_type", TRUE, None)}
    \cup {AnalysisError}

\* car_db.search_cars: a non-empty list, an empty list, or an exception
SearchResults == {"cars", "empty", "error"}

\* generate_browse_car_response: the generated text, or the fixed text of the except branch
GenOrFixed(fixed) == {"generated", fixed}

AllCriteria(st) ==
    Truthy(st.data["brand"]) /\ Truthy(st.data["budget"]) /\ Truthy(st.data["car_type"])

\* car_db.search_cars(brand=..., car_type=..., min_price=..., max_price=..., limit=10)
SearchCall(brand, car_type, min_price, max_price, limit) ==
    "search_cars(" \o brand \o "," \o car_type \o "," \o min_price \o ","
        \o max_price \o "," \o limit \o ")"

\* the search with the budget left out (min_price and max_price None)
Searched_without_budget(st) ==
    {"search", SearchCall(st.data["brand"], st.data["car_type"], None, None, "10")}

\* the search every branch issues once brand, budget and car type are there:
\* min_price, max_price = budget; search_cars(brand, car_type, min_price, max_price, 10)
Searched(st) ==
    {"search", SearchCall(st.data["brand"], st.data["car_type"],
                          BudgetMin(st.data["budget"]), BudgetMax(st.data["budget"]), "10")}

\* the search of Searched(st) that returned an empty list
NoCars(st) == Searched(st) \cup {"no_cars"}

\* update_data(cars=...) + update_state(step="showing_cars") + format_car_list
ShowCars(st) ==
    Done(update_state_step(update_data(st, [cars |-> CAR_LIST]), "showing_cars"),
         "car_list", Searched(st))

---------------------------------------------------------------------------
(* handle_browse_car_flow: initialisation (lines 556-686) *)

browse_init(message) ==
    UNION {
      LET fallback == ~a.ok
          brand == IF fallback THEN extract_brand_from_message(message) ELSE a.extracted_brand
          budget == IF fallback THEN extract_budget_from_message(message) ELSE a.extracted_budget
          car_type == IF fallback THEN extract_car_type_from_message(message) ELSE a.extracted_type
          st1 == set_state(NoState,
                           ConversationState(BROWSE, "collecting_criteria",
                               [brand |-> brand, budget |-> budget, car_type |-> car_type]))
      IN  IF Truthy(brand) /\ Truthy(budget) /\ Truthy(car_type)
          THEN {ShowCars(st1), Fall(st1, {"init"} \cup Searched(st1))}
               \cup (IF fallback THEN {Fall(st1, {"init"} \cup NoCars(st1))}
                     ELSE {Done(st1, "no_match", {"init"} \cup NoCars(st1))})
          ELSE {Done(st1, "ask_missing", {"init"})}
      : a \in Extraction(BrowseExtractions \cup {AnalysisError})}

---------------------------------------------------------------------------
(* handle_browse_car_flow: step collecting_criteria (lines 727-1294) *)

CONFIRMING == {"yes", "y", "yeah", "sure", "correct", "confirm", "ok", "okay", "right",
               "that's right", "thats right", "yes please", "yes that's right"}

ClearPending ==
    [pending_brand |-> None, pending_budget |-> None, pending_car_type |-> None,
     awaiting_confirmation |-> "False"]

\* brand = pending_brand if pending_brand is not None else state.data.get("brand") ...
CommitPending(st) ==
    LET pick(p, k) == IF st.data[p] # None THEN st.data[p] ELSE st.data[k]
    IN  update_data(st, [brand |-> pick("pending_brand", "brand"),
                         budget |-> pick("pending_budget", "budget"),
                         car_type |-> pick("pending_car_type", "car_type")] @@ ClearPending)

\* search with the stored criteria; reply `err` when the search raises
SearchOrAsk(st, err) ==
    IF AllCriteria(st)
    THEN {ShowCars(st), Done(st, "no_match", NoCars(st)), Done(st, err, Searched(st))}
    ELSE {Done(st, "ask_missing", {})}

\* lines 732-903
criteria_confirmation(st, message) ==
    LET message_lower == Strip(Lower(message))
    IN  IF ~Truthy(st.data["awaiting_confirmation"]) THEN {Fall(st, {})}
        ELSE IF message_lower \in CONFIRMING
        THEN SearchOrAsk(CommitPending(st), "search_error")
        ELSE IF message_lower \in {"no", "n", "nope", "wrong", "incorrect"}
        THEN LET st1 == update_data(st, ClearPending)
             IN  {Done(st1,
                       IF Truthy(st1.data["pending_car_type"]) THEN "reask_type"
                       ELSE IF Truthy(st1.data["pending_brand"]) THEN "reask_brand"
                       ELSE IF Truthy(st1.data["pending_budget"]) THEN "reask_budget"
                       ELSE "reask_generic", {})}
        ELSE {IF ~a.ok THEN Fall(update_data(st, ClearPending), {})
              ELSE LET user_intent == Lower(a.user_intent)
                   IN  IF Contains(user_intent, "providing_brand") \/ Truthy(a.extracted_brand)
                       THEN Fall(update_data(st, ClearPending), {})
                       ELSE IF Contains(user_intent, "providing_type") \/ Truthy(a.extracted_type)
                       THEN Fall(update_data(st, ClearPending), {})
                       ELSE IF \/ Contains(user_intent, "confirm")
                               \/ Contains(message_lower, "yes")
                               \/ Contains(message_lower, "correct")
                       THEN Fall(CommitPending(st), {})
                       ELSE Done(st, "unclear_confirmation", {})
              : a \in Extraction(BrowseAnalyses)}

\* lines 906-951
criteria_no_skip(st, message) ==
    IF Strip(Lower(message)) \in {"no", "n", "nope", "skip"}
    THEN SearchOrAsk(st, "search_error")
    ELSE {Fall(st, {})}

\* lines 1108-1242: store the merged criteria, ask for what is missing or search
criteria_store(st, brand, budget, car_type) ==
    LET st1 == update_data(st, [brand |-> brand, budget |-> budget, car_type |-> car_type])
    IN  IF AllCriteria(st1)
        THEN {ShowCars(st1), Done(st1, "no_match", NoCars(st1)),
              Done(st1, "search_error", Searched(st1))}
        ELSE {Done(st1, r, {}) : r \in GenOrFixed("ask_missing")}

\* lines 1038-1105
criteria_change(st, brand, budget, car_type) ==
    LET st1 == update_data(update_state_step(st, "collecting_criteria"),
                           [brand |-> brand, budget |-> budget, car_type |-> car_type])
    IN  IF AllCriteria(st1)
        THEN {ShowCars(st1), Done(st1, "no_match", NoCars(st1)), Fall(st1, Searched(st1))}
        ELSE {Done(st1, "ask_missing", {"change"})}

Or(a, b) == IF Truthy(a) THEN a ELSE b

\* the extracted values written over brand, budget and car_type themselves
StorePending_as_criteria(st, extracted_brand, extracted_budget, extracted_type) ==
    LET keep(k, v) == IF v # None THEN v ELSE st.data[k]
    IN  update_data(st, [awaiting_confirmation |-> "True",
                         brand |-> keep("brand", extracted_brand),
                         budget |-> keep("budget", extracted_budget),
                         car_type |-> keep("car_type", extracted_type)])

\* lines 999-1009: update_data = {"awaiting_confirmation": True} and one pending_*
\* entry for every extracted value that is not None
StorePending(st, extracted_brand, extracted_budget, extracted_type) ==
    LET keep(k, v) == IF v # None THEN v ELSE st.data[k]
    IN  update_data(st, [awaiting_confirmation |-> "True",
                         pending_brand |-> keep("pending_brand", extracted_brand),
                         pending_budget |-> keep("pending_budget", extracted_budget),
                         pending_car_type |-> keep("pending_car_type", extracted_type)])

\* lines 954-1294; needs_clarification stands for the test of line 967,
\* `needs_clarification and clarification_question`
criteria_analysis(st, message) ==
    UNION {
      IF ~a.ok
      THEN LET st1 == update_data(st,
                        [brand |-> Or(extract_brand_from_message(message), st.data["brand"]),
                         budget |-> Or(extract_budget_from_message(message), st.data["budget"]),
                         car_type |-> Or(extract_car_type_from_message(message),
                                         st.data["car_type"])])
           IN  SearchOrAsk(st1, "search_error")
      ELSE IF a.needs_clarification
      THEN LET extracted_brand ==
                   IF a.extracted_brand = None /\ a.quoted \in available_brands
                   THEN a.quoted ELSE a.extracted_brand
               extracted_type ==
                   IF a.extracted_type = None /\ a.quoted \in available_types
                   THEN a.quoted ELSE a.extracted_type
           IN  {Done(StorePending(st, extracted_brand, a.extracted_budget, extracted_type),
                     "clarification_question", {"clarify"})}
      ELSE LET brand == Or(a.extracted_brand, st.data["brand"])
               budget == Or(a.extracted_budget, st.data["budget"])
               car_type == Or(a.extracted_type, st.data["car_type"])
               st1 == update_data(st, ClearPending)
           IN  IF \/ Contains(Lower(a.user_intent), "changing_criteria")
                  \/ Contains(Lower(message), "change")
               THEN Then(criteria_change(st1, brand, budget, car_type),
                         LAMBDA s : criteria_store(s, brand, budget, car_type))
               ELSE criteria_store(st1, brand, budget, car_type)
      : a \in Extraction(BrowseAnalyses)}

browse_collecting_criteria(st, message) ==
    Then(Then(criteria_confirmation(st, message),
              LAMBDA s : criteria_no_skip(s, message)),
         LAMBDA s : criteria_analysis(s, message))

---------------------------------------------------------------------------
(* handle_browse_car_flow: steps showing_cars and car_selected            *)

CHANGE_WORDS == {"change", "modify", "different", "new search", "start over"}

ToCriteria(st, upd) == update_data(update_state_step(st, "collecting_criteria"), upd)

\* the last return of the function (line 2025)
NOT_SURE == "not_sure"

SelectCar(st, n) ==
    update_state_step(update_data(st, [selected_car |-> CarAt(n)]), "car_selected")

\* lines 1296-1437
browse_showing_cars(st, message) ==
    LET message_lower == Strip(Lower(message))
        shown == IF st.data["cars"] = CAR_LIST THEN NumCars ELSE 0
    IN  UNION {
          IF ~a.ok
          THEN IF message_lower \in {"change", "modify", "different", "new search"}
               THEN {Done(ToCriteria(st, [cars |-> None]), "start_fresh", {"change"})}
               ELSE IF ~isdigit(message_lower) THEN {Done(st, "ask_car_number", {})}
               ELSE IF 1 <= ToInt(message_lower) /\ ToInt(message_lower) <= shown
               THEN {Done(SelectCar(st, ToInt(message_lower)), "car_options", {"select"})}
               ELSE {Done(st, NOT_SURE, {})}
          ELSE LET user_intent == Lower(a.user_intent)
                   is_selecting_car == /\ isdigit(message_lower)
                                       /\ 1 <= ToInt(message_lower)
                                       /\ ToInt(message_lower) <= 10
                   wants_to_change ==
                       \/ Contains(user_intent, "changing_criteria") /\ ~is_selecting_car
                       \/ message_lower \in CHANGE_WORDS
                       \/ Contains(message_lower, "change") /\ Contains(message_lower, "criteria")
                       \/ Contains(message_lower, "modify") /\ Contains(message_lower, "search")
               IN  IF wants_to_change /\ ~is_selecting_car
                   THEN {Done(ToCriteria(st, [cars |-> None]), r, {"change"}) :
                            r \in GenOrFixed("start_fresh")}
                   ELSE IF Contains(user_intent, "selecting_car") \/ HasDigit(message_lower)
                   THEN IF ~isdigit(message_lower)
                        THEN {Done(st, r, {}) : r \in GenOrFixed("ask_car_number")}
                        ELSE IF 1 <= ToInt(message_lower) /\ ToInt(message_lower) <= shown
                        THEN {Done(SelectCar(st, ToInt(message_lower)), "car_options",
                                   {"select"})}
                        ELSE {Done(st, "select_in_range", {})}
                   ELSE {Done(st, r, {}) : r \in GenOrFixed("ask_car_number")}
          : a \in Extraction(BrowseAnalyses)}

\* _transition_to_emi_flow (lines 127-150)
transition_to_emi_flow(st) ==
    LET selected_car == st.data["selected_car"]
    IN  Done(IF Truthy(selected_car)
             THEN set_state(clear_state(st),
                            ConversationState(EMI, "down_payment",
                                [selected_car |-> selected_car, down_payment |-> None,
                                 tenure |-> None]))
             ELSE clear_state(st),
             Marker(EMI), {"handoff"})

\* lines 1443-1455
is_date_time_intent(intent_result) ==
    LET intent_lower == Lower(intent_result.intent)
    IN  \/ Contains(intent_lower, "provide_date")
        \/ Contains(intent_lower, "provide_time")
        \/ Contains(intent_lower, "date")
        \/ "date" \in intent_result.entities
        \/ "time" \in intent_result.entities

\* lines 1477-1604 (after the date/time check)
browse_car_selected(st, message) ==
    LET message_lower == Strip(Lower(message))
    IN  IF message_lower = "1"
        THEN {Done(update_state_step(st, "test_drive_name"), "ask_name", {})}
        ELSE IF message_lower = "2" THEN {transition_to_emi_flow(st)}
        ELSE IF message_lower = "3"
        THEN {Done(ToCriteria(st, [selected_car |-> None, cars |-> None]), "new_search",
                   {"change"})}
        ELSE UNION {
          IF ~a.ok
          THEN IF Contains(message_lower, "change") \/ Contains(message_lower, "3")
               THEN {Done(ToCriteria(st, [selected_car |-> None, cars |-> None]),
                          "new_search", {"change"})}
               ELSE IF \/ Contains(message_lower, "emi") \/ Contains(message_lower, "loan")
                       \/ Contains(message_lower, "2")
               THEN {transition_to_emi_flow(st)}
               ELSE IF \/ Contains(message_lower, "test drive")
                       \/ Contains(message_lower, "1") \/ Contains(message_lower, "book")
               THEN {Done(update_state_step(st, "test_drive_date"), "ask_date", {})}
               ELSE {Done(st, "car_options", {})}
          ELSE LET user_intent == Lower(a.user_intent)
                   wants_to_change ==
                       \/ Contains(user_intent, "changing_criteria")
                       \/ message_lower \in CHANGE_WORDS
                       \/ Contains(message_lower, "change") /\ Contains(message_lower, "criteria")
                       \/ Contains(message_lower, "modify") /\ Contains(message_lower, "search")
                   wants_emi ==
                       \/ Contains(message_lower, "emi") \/ Contains(message_lower, "loan")
                       \/ Contains(message_lower, "finance")
                       \/ Contains(message_lower, "installment")
                   wants_test_drive ==
                       \/ Contains(user_intent, "booking_test_drive")
                       \/ Contains(message_lower, "test drive")
                       \/ Contains(message_lower, "book") /\ Contains(message_lower, "test")
               IN  IF wants_to_change
                   THEN {Done(ToCriteria(st, [selected_car |-> None, cars |-> None]), r,
                              {"change"}) : r \in GenOrFixed("new_search")}
                   ELSE IF wants_emi THEN {transition_to_emi_flow(st)}
                   ELSE IF wants_test_drive
                   THEN {Done(update_state_step(st, "test_drive_name"), r, {}) :
                            r \in GenOrFixed("ask_name")}
                   ELSE {Done(st, r, {}) : r \in GenOrFixed("car_options")}
          : a \in Extraction(BrowseAnalyses)}

---------------------------------------------------------------------------
(* handle_flexible_test_drive_collection (lines 184-519)                  *)

TEST_DRIVE_STEPS ==
    {"test_drive_date", "test_drive_time", "test_drive_name", "test_drive_phone",
     "test_drive_dl", "test_drive_location", "test_drive_address"}

\* analyze_test_drive_details: the result dict, or BrowseCarAnalysisError (ok = FALSE)
TDAnalysis(d, t, n, p, dl, loc, nc) ==
    [ok |-> TRUE, extracted_date |-> d, extracted_time |-> t, extracted_name |-> n,
     extracted_phone |-> p, extracted_has_dl |-> dl, extracted_location |-> loc,
     needs_confirmation |-> nc]

TDNothing == TDAnalysis(None, None, None, None, None, None, FALSE)

TestDriveAnalyses ==
    {TDNothing,
     [TDNothing EXCEPT !.extracted_date = TEXT],
     [TDNothing EXCEPT !.extracted_time = TEXT],
     [TDNothing EXCEPT !.extracted_name = TEXT],
     [TDNothing EXCEPT !.extracted_phone = PHONE],
     [TDNothing EXCEPT !.extracted_has_dl = "True"],
     [TDNothing EXCEPT !.extracted_has_dl = "False"],
     [TDNothing EXCEPT !.extracted_location = "showroom"],
     [TDNothing EXCEPT !.extracted_location = "home"],
     TDAnalysis(TEXT, TEXT, TEXT, PHONE, "True", "showroom", FALSE),
     [TDNothing EXCEPT !.needs_confirmation = TRUE],
     [TDNothing EXCEPT !.ok = FALSE]}

DL_APOLOGY == "dl_apology"

\* lines 310-322: a field is written only when something was extracted for it
td_store(st, a) ==
    LET put(k, v) == IF Truthy(v) THEN v ELSE st.data[k]
    IN  [st EXCEPT !.data =
           [st.data EXCEPT
              !["test_drive_date"] = put("test_drive_date", a.extracted_date),
              !["test_drive_time"] = put("test_drive_time", a.extracted_time),
              !["test_drive_name"] = put("test_drive_name", a.extracted_name),
              !["test_drive_phone"] = put("test_drive_phone", a.extracted_phone),
              !["test_drive_has_dl"] = IF a.extracted_has_dl # None THEN a.extracted_has_dl
                                       ELSE st.data["test_drive_has_dl"],
              !["test_drive_location"] = put("test_drive_location", a.extracted_location)]]

\* lines 328-423: the next step is the first field still missing
td_next(st) ==
    LET has(k) == st.data[k] # None
    IN  IF ~has("test_drive_date")
        THEN Done(update_state_step(st, "test_drive_date"), "ask_date", {})
        ELSE IF ~has("test_drive_time")
        THEN Done(update_state_step(st, "test_drive_time"), "ask_time", {})
        ELSE IF ~has("test_drive_name")
        THEN Done(update_state_step(st, "test_drive_name"), "ask_name", {})
        ELSE IF ~has("test_drive_phone")
        THEN Done(update_state_step(st, "test_drive_phone"), "ask_phone", {})
        ELSE IF ~has("test_drive_has_dl")
        THEN Done(update_state_step(st, "test_drive_dl"), "ask_dl", {})
        ELSE IF st.data["test_drive_has_dl"] = "False"
        THEN Done(clear_state(st), DL_APOLOGY, {"dl_rejected"})
        ELSE IF ~has("test_drive_location")
        THEN Done(update_state_step(st, "test_drive_location"), "ask_location", {})
        ELSE IF st.data["test_drive_location"] = "home" /\ ~has("test_drive_address")
        THEN Done(update_state_step(st, "test_drive_address"), "ask_address", {})
        ELSE Done(update_state_step(st, "test_drive_confirm"), "confirm_details", {})

\* lines 425-519: BrowseCarAnalysisError, simple extraction for the current step
td_fallback(st, message) ==
    LET message_lower == Strip(Lower(message))
        text == IF Strip(message) = "" THEN "" ELSE TEXT
        take(k, nxt, ask, again) ==
            IF ~Truthy(st.data[k])
            THEN Done(update_state_step(update_data(st, (k :> text)), nxt), ask, {})
            ELSE Done(st, again, {})
    IN  CASE st.step = "test_drive_date" ->
               take("test_drive_date", "test_drive_time", "ask_time", "ask_date")
          [] st.step = "test_drive_time" ->
               take("test_drive_time", "test_drive_name", "ask_name", "ask_time")
          [] st.step = "test_drive_name" ->
               take("test_drive_name", "test_drive_phone", "ask_phone", "ask_name")
          [] st.step = "test_drive_phone" ->
               IF CountDigits(message) >= 10
               THEN Done(update_state_step(update_data(st, [test_drive_phone |-> PHONE]),
                                           "test_drive_dl"), "ask_dl", {})
               ELSE Done(st, "ask_phone", {})
          [] st.step = "test_drive_dl" ->
               IF message_lower \in {"yes", "y", "yeah", "sure", "i have", "have"}
               THEN Done(update_state_step(update_data(st, [test_drive_has_dl |-> "True"]),
                                           "test_drive_location"), "ask_location", {})
               ELSE IF message_lower \in {"no", "n", "don't", "dont", "i don't", "i dont"}
               THEN Done(clear_state(st), DL_APOLOGY, {"dl_rejected"})
               ELSE Done(st, "ask_dl", {})
          [] st.step = "test_drive_location" ->
               LET showroom == Contains(message_lower, "1") \/ Contains(message_lower, "showroom")
                   home == \/ Contains(message_lower, "2") \/ Contains(message_lower, "home")
                           \/ Contains(message_lower, "pickup")
               IN  IF showroom \/ home
                   THEN Done(update_state_step(
                                update_data(st, [test_drive_location |->
                                                   IF showroom THEN "showroom" ELSE "home"]),
                                "test_drive_confirm"), "confirm_details", {})
                   ELSE Done(st, "ask_location", {})
          [] OTHER -> Done(st, "didnt_catch", {})

\* lines 282-519
td_analysis(st, message) ==
    {IF ~a.ok THEN td_fallback(st, message)
     ELSE IF a.needs_confirmation THEN Done(st, "confirm_understood", {})
     ELSE td_next(td_store(st, a))
     : a \in Extraction(TestDriveAnalyses)}

\* validate_and_extract_field: needs confirmation, valid value, invalid, or an exception
Validations == {"needs_confirmation", "valid", "invalid", "error"}

handle_flexible_test_drive_collection(st, message) ==
    IF st.step \in {"test_drive_name", "test_drive_address"} /\ Strip(message) # ""
    THEN UNION {
           CASE v = "needs_confirmation" -> {Done(st, "confirm_field", {})}
             [] v = "invalid" -> {Done(st, "invalid_field", {})}
             [] v = "error" -> td_analysis(st, message)
             [] v = "valid" ->
                  IF st.step = "test_drive_name"
                  THEN td_analysis(update_data(st, [test_drive_name |-> TEXT]), "")
                  ELSE td_analysis(update_state_step(
                                      update_data(st, [test_drive_address |-> TEXT]),
                                      "test_drive_confirm"), "")
           : v \in Validations}
    ELSE td_analysis(st, message)

\* the record cleared when create_test_drive_booking raises
browse_test_drive_confirm_clearing(st, message) ==
    LET message_lower == Strip(Lower(message))
    IN  IF message_lower \in {"yes", "y", "confirm", "ok", "okay", "sure", "correct", "proceed"}
        THEN IF ~Truthy(st.data["selected_car"]) THEN {Done(st, "start_over", {})}
             ELSE {Done(clear_state(st), "test_drive_booked", {"booked"}),
                   Done(clear_state(st), "booking_error_raw", {"booking_failed"})}
        ELSE IF message_lower \in {"no", "n", "change", "modify", "edit", "wrong", "incorrect"}
        THEN {Done(st, "what_to_change", {})}
        ELSE {Done(st, "confirm_prompt", {})}

\* lines 1934-2023
browse_test_drive_confirm(st, message) ==
    LET message_lower == Strip(Lower(message))
    IN  IF message_lower \in {"yes", "y", "confirm", "ok", "okay", "sure", "correct", "proceed"}
        THEN IF ~Truthy(st.data["selected_car"]) THEN {Done(st, "start_over", {})}
             ELSE {Done(clear_state(st), "test_drive_booked", {"booked"}),
                   Done(st, "booking_error_raw", {"booking_failed"})}
        ELSE IF message_lower \in {"no", "n", "change", "modify", "edit", "wrong", "incorrect"}
        THEN {Done(st, "what_to_change", {})}
        ELSE {Done(st, "confirm_prompt", {})}

---------------------------------------------------------------------------
(* handle_browse_car_flow (lines 522-2025)                                *)

\* lines 727-2025: the if/elif chain on state.step
browse_step(st, message, intent_result) ==
    CASE st.step = "collecting_criteria" -> browse_collecting_criteria(st, message)
      [] st.step = "showing_cars" -> browse_showing_cars(st, message)
      [] st.step = "car_selected" ->
           IF intent_result.present /\ is_date_time_intent(intent_result)
           THEN handle_flexible_test_drive_collection(
                    update_state_step(st, "test_drive_date"), message)
           ELSE browse_car_selected(st, message)
      [] st.step \in TEST_DRIVE_STEPS -> handle_flexible_test_drive_collection(st, message)
      [] st.step = "test_drive_confirm" -> browse_test_drive_confirm(st, message)
      [] OTHER -> {Done(st, NOT_SURE, {})}

\* line 556
browse_needs_init(st) == ~st.exists \/ (st.flow_name # BROWSE /\ st.flow_name # None)

\* line 556 with the test `state is None or state.flow_name != "browse_car"`
browse_needs_init_any(st) == ~st.exists \/ st.flow_name # BROWSE

\* lines 546-548 with the exit check left out
browse_exit_never(message) == FALSE

\* lines 546-548
browse_exit(message) == is_exit_request(message)

handle_browse_car_flow(st, message, intent_result) ==
    LET target == IF intent_result.present
                  THEN detect_flow_switch(intent_result, message, BROWSE, st.step)
                  ELSE None
    IN  IF target # None THEN {Done(clear_state(st), Marker(target), {"switch_marker"})}
        ELSE IF browse_exit(message) THEN {Done(clear_state(st), MAIN_MENU, {"exit"})}
        ELSE Then(IF browse_needs_init(st) THEN browse_init(message) ELSE {Fall(st, {})},
                  LAMBDA s : browse_step(s, message, intent_result))

---------------------------------------------------------------------------
(* emi_flow.py                                                            *)

\* the digits of s that end at position i (a maximal run read backwards)
RECURSIVE RunEndingAt(_, _)
RunEndingAt(s, i) ==
    IF i >= 1 /\ IsDigit(SubSeq(s, i, i))
    THEN RunEndingAt(s, i - 1) \o SubSeq(s, i, i)
    ELSE ""

\* positions where a run of digits ends and, after optional blanks, `unit` follows
DigitsBefore(s, unit) ==
    {i \in 1..Len(s) : /\ IsDigit(SubSeq(s, i, i))
                       /\ StartsWith(LStrip(SubSeq(s, i + 1, Len(s))), unit)}

\* ends of the maximal digit runs of at least four digits
LongRuns(s) ==
    {i \in 1..Len(s) : /\ IsDigit(SubSeq(s, i, i))
                       /\ (i = Len(s) \/ ~IsDigit(SubSeq(s, i + 1, i + 1)))
                       /\ Len(RunEndingAt(s, i)) >= 4}

Min(S) == CHOOSE x \in S : \A y \in S : x <= y

\* extract_down_payment_from_message (lines 31-65); 0 stands for None
extract_down_payment_from_message(message) ==
    LET message_lower == Lower(message)
        lakh == DigitsBefore(message_lower, "lakh") \cup DigitsBefore(message_lower, "lac")
        long == LongRuns(message_lower)
        small == DigitsBefore(message_lower, "thousand") \cup DigitsBefore(message_lower, "k")
        hit == IF lakh # {} THEN lakh ELSE IF long # {} THEN long ELSE small
        scale(n) == IF n < 100 THEN n * 100000
                    ELSE IF n < 10000
                    THEN IF Contains(message_lower, "lakh") \/ Contains(message_lower, "lac")
                         THEN n * 100000 ELSE n * 1000
                    ELSE n
    IN  IF hit = {} THEN 0 ELSE scale(ToInt(RunEndingAt(message_lower, Min(hit))))

EMI_TENURE_OPTIONS == {12, 24, 36, 48, 60, 72}

\* selected_car.get("price", 0) of a car of the database
car_price(selected_car) == 800000

\* analyze_emi_message: the result dict, or EMIAnalysisError (ok = FALSE);
\* 0 stands for a missing amount or tenure
EMIAnalysis(dp, tenure, ui) ==
    [ok |-> TRUE, extracted_down_payment |-> dp, extracted_tenure |-> tenure,
     user_intent |-> ui]

EMIAnalyses ==
    {EMIAnalysis(dp, 0, "providing_down_payment") : dp \in {0, 200000, 900000, -1}}
    \cup {EMIAnalysis(0, t, "selecting_tenure") : t \in {12, 13}}
    \cup {EMIAnalysis(dp, 0, "changing_criteria") : dp \in {0, 900000}}
    \cup {[EMIAnalysis(0, 0, "") EXCEPT !.ok = FALSE]}

AMOUNT == "amount"

\* lines 211-311
emi_init ==
    {Done(set_state(NoState, ConversationState(EMI, "selecting_car",
              [selected_car |-> None, down_payment |-> None, tenure |-> None])),
          r, {"init"}) : r \in {"generated", "emi_start", "emi_start_fallback"}}

\* lines 316-368: the step only replies
emi_selecting_car(st, message) ==
    LET message_lower == Lower(message)
    IN  {Done(st, "select_car_fallback", {})}
        \cup (IF \/ Contains(message_lower, "browse") \/ Contains(message_lower, "search")
                 \/ Contains(message_lower, "find")
              THEN {Done(st, "browse_first", {})}
              ELSE {Done(st, r, {}) : r \in GenOrFixed("select_car_first")})

\* lines 387-392 (and 447, 462 in the except branches): the amount the step
\* validates, from the analysis when it gave one, else from the message
down_payment_of(a, message) ==
    IF a.ok /\ a.extracted_down_payment # 0
    THEN a.extracted_down_payment
    ELSE extract_down_payment_from_message(message)

\* lines 394-396
emi_change_request(a, message) ==
    /\ a.ok
    /\ \/ Contains(Lower(a.user_intent), "changing_criteria")
       \/ Contains(Lower(message), "change")

\* lines 433-436
emi_accept(st) ==
    update_state_step(update_data(st, [down_payment |-> AMOUNT]), "selecting_tenure")

emi_down_payment_step_unsigned(st, message, a) ==
    IF emi_change_request(a, message)
    THEN {Done(update_data(update_state_step(st, "selecting_car"),
                           [selected_car |-> None, down_payment |-> None]),
               r, {"change"}) : r \in GenOrFixed("start_over")}
    ELSE IF down_payment_of(a, message) = 0
    THEN {Done(st, r, {}) : r \in IF a.ok THEN GenOrFixed("ask_down_payment")
                                          ELSE {"ask_down_payment"}}
    ELSE IF down_payment_of(a, message) >= car_price(st.data["selected_car"])
    THEN {Done(st, "down_payment_too_high", {})}
    ELSE {Done(emi_accept(st), "emi_options", {"down_payment"})}

\* lines 377-476 for one outcome `a` of analyze_emi_message; the except
\* branches (445-476) have no sign test: their amount comes from digits only
emi_down_payment_step(st, message, a) ==
    IF emi_change_request(a, message)
    THEN {Done(update_data(update_state_step(st, "selecting_car"),
                           [selected_car |-> None, down_payment |-> None]),
               r, {"change"}) : r \in GenOrFixed("start_over")}
    ELSE IF down_payment_of(a, message) = 0
    THEN {Done(st, r, {}) : r \in IF a.ok THEN GenOrFixed("ask_down_payment")
                                          ELSE {"ask_down_payment"}}
    ELSE IF down_payment_of(a, message) >= car_price(st.data["selected_car"])
    THEN {Done(st, "down_payment_too_high", {})}
    ELSE IF a.ok /\ down_payment_of(a, message) < 0
    THEN {Done(st, "down_payment_invalid", {})}
    ELSE {Done(emi_accept(st), "emi_options", {"down_payment"})}

\* lines 370-476
emi_down_payment(st, message) ==
    IF ~Truthy(st.data["selected_car"])
    THEN {Done(update_state_step(st, "selecting_car"), "no_selected_car", {})}
    ELSE UNION {emi_down_payment_step(st, message, a) : a \in Extraction(EMIAnalyses)}

\* int(message_lower) when it is one of EMI_TENURE_OPTIONS, else 0
tenure_from_message(message) ==
    LET message_lower == Strip(Lower(message))
    IN  IF isdigit(message_lower)
           /\ ToInt(message_lower) \in EMI_TENURE_OPTIONS
        THEN ToInt(message_lower) ELSE 0

\* lines 478-597; in both except branches `message_lower` is read before it
\* was ever assigned, the NameError is caught and the fixed text is returned
emi_selecting_tenure(st, message) ==
    IF ~Truthy(st.data["selected_car"]) \/ ~Truthy(st.data["down_payment"])
    THEN {Done(update_state_step(st, "down_payment"), "need_car_and_down_payment", {})}
    ELSE UNION {
      IF ~a.ok THEN {Done(st, "select_tenure", {})}
      ELSE LET tenure == IF a.extracted_tenure # 0 THEN a.extracted_tenure
                         ELSE tenure_from_message(message)
           IN  IF \/ Contains(Lower(a.user_intent), "changing_criteria")
                  \/ Contains(Lower(message), "change")
               THEN {Done(update_data(update_state_step(st, "down_payment"),
                                      [tenure |-> None]), r, {"change"}) :
                        r \in GenOrFixed("ask_new_down_payment")}
               ELSE IF tenure # 0 /\ tenure \in EMI_TENURE_OPTIONS
               THEN {Done(update_state_step(
                             update_data(st, [tenure |-> "tenure", emi_data |-> "emi_data"]),
                             "showing_emi"), "emi_result", {"emi"})}
               ELSE {Done(st, r, {}) : r \in GenOrFixed("select_valid_tenure")}
      : a \in Extraction(EMIAnalyses)}

\* lines 599-661
emi_showing_emi(st, message) ==
    LET message_lower == Strip(Lower(message))
    IN  IF ContainsAny(message_lower, {"1", "another", "new", "calculate another"})
        THEN {Done(update_data(update_state_step(st, "selecting_car"),
                               [selected_car |-> None, down_payment |-> None,
                                tenure |-> None, emi_data |-> None]),
                   "another_car", {"change"})}
        ELSE IF ContainsAny(message_lower, {"2", "change", "modify"})
        THEN {Done(update_data(update_state_step(st, "down_payment"),
                               [tenure |-> None, emi_data |-> None]),
                   "ask_new_down_payment", {"change"})}
        ELSE IF ContainsAny(message_lower, {"3", "information", "details", "more"})
        THEN {Done(st, IF Truthy(st.data["emi_data"]) THEN "emi_details" ELSE "no_emi_details",
                   {})}
        ELSE {Done(st, r, {}) : r \in GenOrFixed("emi_menu")}

\* line 211
emi_needs_init(st) == ~st.exists \/ st.flow_name # EMI

\* handle_emi_flow (lines 199-663)
handle_emi_flow(st, message, intent_result) ==
    IF emi_needs_init(st) THEN emi_init
    ELSE CASE st.step = "selecting_car" -> emi_selecting_car(st, message)
           [] st.step = "down_payment" -> emi_down_payment(st, message)
           [] st.step = "selecting_tenure" -> emi_selecting_tenure(st, message)
           [] st.step = "showing_emi" -> emi_showing_emi(st, message)
           [] OTHER -> {Done(st, NOT_SURE, {})}

---------------------------------------------------------------------------
(* car_valuation_flow.py                                                  *)

Alnum == "abcdefghijklmnopqrstuvwxyzABCDEFGHIJKLMNOPQRSTUVWXYZ0123456789_"

\* \b at the edge of a word that starts at i and ends at j
WordAt(s, i, j) ==
    /\ (i = 1 \/ ~Contains(Alnum, SubSeq(s, i - 1, i - 1)))
    /\ (j = Len(s) \/ ~Contains(Alnum, SubSeq(s, j + 1, j + 1)))

YEAR == "year"

INVALID_YEAR == "year_out_of_range"

\* datetime.now().year
current_year == 2026

\* extract_year_from_message (lines 96-113): the pattern \b(19[9]\d|20[0-3]\d)\b;
\* the two patterns with the word "year" agree with it on the messages used here
extract_year_from_message(message) ==
    IF \E i \in 1..(Len(message) - 3) :
          LET w == SubSeq(message, i, i + 3)
          IN  /\ isdigit(w) /\ WordAt(message, i, i + 3)
              /\ (SubSeq(w, 1, 3) = "199"
                  \/ (SubSeq(w, 1, 2) = "20" /\ Contains("0123", SubSeq(w, 3, 3))))
              /\ 1990 <= ToInt(w) /\ ToInt(w) <= current_year
    THEN YEAR ELSE None

\* condition_keywords, in the order of the dict
condition_keywords ==
    <<[condition |-> "excellent",
       keywords |-> {"excellent", "perfect", "mint", "like new", "showroom"}],
      [condition |-> "very good",
       keywords |-> {"very good", "verygood", "great condition", "almost new"}],
      [condition |-> "good", keywords |-> {"good", "well maintained", "decent"}],
      [condition |-> "average", keywords |-> {"average", "okay", "ok", "normal", "regular"}],
      [condition |-> "fair", keywords |-> {"fair", "decent condition", "usable"}],
      [condition |-> "poor",
       keywords |-> {"poor", "bad", "damaged", "needs repair", "rough"}]>>

\* extract_condition_from_message (lines 116-134)
extract_condition_from_message(message) ==
    LET message_lower == Lower(message)
        hits == {i \in 1..Len(condition_keywords) :
                    ContainsAny(message_lower, condition_keywords[i].keywords)}
    IN  IF hits = {} THEN None ELSE condition_keywords[Min(hits)].condition

\* analyze_valuation_message: the result dict, or CarValuationAnalysisError (ok = FALSE)
VAnalysis(b, m, y, f, c, ui) ==
    [ok |-> TRUE, extracted_brand |-> b, extracted_model |-> m, extracted_year |-> y,
     extracted_fuel_type |-> f, extracted_condition |-> c, user_intent |-> ui]

VNothing == VAnalysis(None, None, None, None, None, "providing_info")

ValuationAnalyses ==
    {VNothing,
     [VNothing EXCEPT !.extracted_brand = "Honda"],
     [VNothing EXCEPT !.extracted_model = "City"],
     [VNothing EXCEPT !.extracted_year = YEAR],
     [VNothing EXCEPT !.extracted_year = INVALID_YEAR],
     [VNothing EXCEPT !.extracted_fuel_type = "Petrol"],
     [VNothing EXCEPT !.extracted_condition = "good"],
     VAnalysis("Honda", "City", YEAR, "Petrol", "good", "providing_info"),
     [VNothing EXCEPT !.user_intent = "changing_criteria"],
     [VNothing EXCEPT !.ok = FALSE]}

ValuationFields == {"brand", "model", "year", "fuel_type", "condition"}

\* the if/elif chain asking for the first field of `order` that is missing
FirstMissing(st, order) ==
    LET missing == {i \in 1..Len(order) : ~Truthy(st.data[order[i]])}
    IN  IF missing = {} THEN None ELSE order[Min(missing)]

\* lines 557-601 and 625-657: all fields are present
valuation_calculate(st) ==
    IF st.data["year"] = INVALID_YEAR THEN {Done(st, "invalid_year", {})}
    ELSE {Done(update_state_step(update_data(st, [valuation |-> "valuation"]),
                                 "showing_valuation"), "valuation_result", {"valuation"}),
          Done(st, "valuation_issue", {}),
          Done(st, "valuation_error_raw", {"raw_error"})}

\* lines 299-379
valuation_init(message) ==
    UNION {
      IF a.ok
      THEN LET st1 == set_state(NoState, ConversationState(VALUATION, "collecting_info",
                          [brand |-> a.extracted_brand, model |-> a.extracted_model,
                           year |-> a.extracted_year, fuel_type |-> a.extracted_fuel_type,
                           condition |-> a.extracted_condition]))
               missing == FirstMissing(st1, <<"brand", "model", "year", "fuel_type",
                                              "condition">>)
           IN  {Done(st1, "generated", {"init"}),
                IF missing = None THEN Fall(st1, {"init"})
                ELSE Done(st1, "ask_" \o missing, {"init"})}
      ELSE LET st1 == set_state(NoState, ConversationState(VALUATION, "collecting_info",
                          [brand |-> extract_brand_from_message(message), model |-> None,
                           year |-> extract_year_from_message(message), fuel_type |-> None,
                           condition |-> extract_condition_from_message(message)]))
               missing == FirstMissing(st1, <<"brand", "year", "condition">>)
           IN  {IF missing = None THEN Fall(st1, {"init"})
                ELSE Done(st1, "ask_" \o missing, {"init"})}
      : a \in Extraction(ValuationAnalyses)}

\* the fields for which this run's extraction gave a value
Extracted(x) == {"extracted_" \o k : k \in {f \in DOMAIN x : Truthy(x[f])}}

\* lines 398-657
valuation_collecting_info(st, message) ==
    UNION {
      IF a.ok
      THEN LET x == [brand |-> a.extracted_brand, model |-> a.extracted_model,
                     year |-> a.extracted_year, fuel_type |-> a.extracted_fuel_type,
                     condition |-> a.extracted_condition]
               merged == [k \in ValuationFields |-> Or(x[k], st.data[k])]
           IN  IF \/ Contains(Lower(a.user_intent), "changing_criteria")
                  \/ Contains(Lower(message), "change")
               THEN {Done(update_data(update_state_step(st, "collecting_info"),
                                      [k \in ValuationFields |-> None]),
                          r, {"change"}) : r \in GenOrFixed("start_fresh")}
               ELSE LET st1 == update_data(st, merged)
                        missing == FirstMissing(st1, <<"brand", "model", "year",
                                                       "fuel_type", "condition">>)
                    IN  IF missing # None
                        THEN {Done(st1, r, Extracted(x)) : r \in GenOrFixed("ask_" \o missing)}
                        ELSE {[o EXCEPT !.ev = @ \cup Extracted(x)] :
                                 o \in valuation_calculate(st1)}
      ELSE LET x == [brand |-> extract_brand_from_message(message),
                     year |-> extract_year_from_message(message),
                     condition |-> extract_condition_from_message(message)]
               st1 == update_data(st, [k \in DOMAIN x |-> Or(x[k], st.data[k])])
               missing == FirstMissing(st1, <<"brand", "model", "year", "fuel_type",
                                              "condition">>)
           IN  IF missing # None THEN {Done(st1, "ask_" \o missing, Extracted(x))}
               ELSE {[o EXCEPT !.ev = @ \cup Extracted(x)] : o \in valuation_calculate(st1)}
      : a \in Extraction(ValuationAnalyses)}

\* lines 659-726
valuation_showing_valuation(st, message) ==
    LET message_lower == Strip(Lower(message))
    IN  IF ContainsAny(message_lower, {"1", "another", "new", "value another"})
        THEN {Done(update_data(update_state_step(st, "collecting_info"),
                               [k \in ValuationFields \cup {"valuation"} |-> None]),
                   "value_another", {"change"})}
        ELSE IF ContainsAny(message_lower, {"3", "back", "menu", "main menu"})
        THEN {Done(clear_state(st), "how_can_i_help", {"exit"})}
        ELSE IF ContainsAny(message_lower, {"2", "details", "more"})
        THEN {Done(st, IF Truthy(st.data["valuation"]) THEN "valuation_details"
                       ELSE "no_valuation_details", {})}
        ELSE {Done(st, r, {}) : r \in GenOrFixed("valuation_menu")}

\* line 299
valuation_needs_init(st) == ~st.exists \/ st.flow_name # VALUATION

\* handle_car_valuation_flow (lines 271-728); the record exists after the
\* initialisation, so the re-initialisation of lines 385-396 is never taken
handle_car_valuation_flow(st, message, intent_result) ==
    LET target == IF intent_result.present
                  THEN detect_flow_switch(intent_result, message, VALUATION, st.step)
                  ELSE None
        step(s) == CASE s.step = "collecting_info" -> valuation_collecting_info(s, message)
                     [] s.step = "showing_valuation" ->
                          valuation_showing_valuation(s, message)
                     [] OTHER -> {Done(s, NOT_SURE, {})}
    IN  IF target # None THEN {Done(clear_state(st), Marker(target), {"switch_marker"})}
        ELSE IF is_exit_request(message) THEN {Done(clear_state(st), MAIN_MENU, {"exit"})}
        ELSE Then(IF valuation_needs_init(st) THEN valuation_init(message)
                  ELSE {Fall(st, {})},
                  step)

---------------------------------------------------------------------------
(* service_booking_flow.py                                                *)

IsLetter(c) == Len(c) = 1 /\ Contains(LowerChars, c)

UpperChar(c) ==
    IF \E i \in 1..Len(LowerChars) : SubSeq(LowerChars, i, i) = c
    THEN LET i == CHOOSE j \in 1..Len(LowerChars) : SubSeq(LowerChars, j, j) = c
         IN  SubSeq(UpperChars, i, i)
    ELSE c

\* str.upper()
RECURSIVE Upper(_)
Upper(s) ==
    IF Len(s) = 0 THEN ""
    ELSE UpperChar(SubSeq(s, 1, 1)) \o Upper(SubSeq(s, 2, Len(s)))

\* [A-Z]{n} at i
Capitals(s, i, n) ==
    \A j \in i..(i + n - 1) : Contains(UpperChars, SubSeq(s, j, j))

\* a registration the analysis extracts from a message that holds one
REGISTRATION == "KA01AB1234"

\* a text the analysis may return for a message that holds no registration
NOT_A_REGISTRATION == "ABC123"

\* \b[A-Z]{2}\d{2}[A-Z]{n}\d{4}\b at i, n being 1 or 2
PlateAt(s, i, n) ==
    /\ i + 7 + n <= Len(s)
    /\ Capitals(s, i, 2)
    /\ isdigit(SubSeq(s, i + 2, i + 3))
    /\ Capitals(s, i + 4, n)
    /\ isdigit(SubSeq(s, i + 4 + n, i + 7 + n))
    /\ WordAt(s, i, i + 7 + n)

Plates(s) == {i \in 1..Len(s) : PlateAt(s, i, 2) \/ PlateAt(s, i, 1)}

PlateFrom(s, i) ==
    IF PlateAt(s, i, 2) THEN SubSeq(s, i, i + 9) ELSE SubSeq(s, i, i + 8)

\* extract_registration_number (lines 59-66): the leftmost match of
\* \b([A-Z]{2}\d{2}[A-Z]{1,2}\d{4})\b in message.upper()
extract_registration_number(message) ==
    IF Plates(Upper(message)) = {} THEN None
    ELSE PlateFrom(Upper(message), Min(Plates(Upper(message))))

\* analyze_service_booking_message: the result dict, or ServiceBookingAnalysisError
SAnalysis(mk, md, y, r, t, ui) ==
    [ok |-> TRUE, extracted_make |-> mk, extracted_model |-> md, extracted_year |-> y,
     extracted_registration |-> r, extracted_service_type |-> t, user_intent |-> ui]

SNothing == SAnalysis(None, None, None, None, None, "providing_info")

ServiceAnalyses ==
    {SNothing,
     [SNothing EXCEPT !.extracted_make = "Honda"],
     [SNothing EXCEPT !.extracted_model = "City"],
     [SNothing EXCEPT !.extracted_year = YEAR],
     [SNothing EXCEPT !.extracted_registration = REGISTRATION],
     [SNothing EXCEPT !.extracted_registration = NOT_A_REGISTRATION],
     SAnalysis("Honda", "City", YEAR, REGISTRATION, None, "providing_info"),
     [SNothing EXCEPT !.extracted_service_type = "Major Service"],
     [SNothing EXCEPT !.user_intent = "changing_criteria"],
     [SNothing EXCEPT !.ok = FALSE]}

VehicleFields == {"make", "model", "year", "registration_number"}

\* lines 171-182
service_init ==
    {Done(set_state(NoState, ConversationState(SERVICE, "showing_services", <<>>)),
          "services_list", {"init"})}

\* lines 187-292
service_showing_services(st, message) ==
    LET message_lower == Strip(Lower(message))
    IN  IF message_lower \in {"1", "book", "book service", "book a service"}
        THEN {Done(update_data(update_state_step(st, "collecting_vehicle_details"),
                               [service |-> "Vehicle Servicing & Repairs"]), r, {}) :
                 r \in GenOrFixed("ask_vehicle_details")}
        ELSE IF message_lower \in {"2", "browse", "browse cars", "used cars"}
        THEN {[o EXCEPT !.ev = @ \cup {"to_browse"}] :
                 o \in handle_browse_car_flow(clear_state(st), "I want to browse cars",
                                              NoIntentResult)}
        ELSE IF message_lower \in {"3", "talk", "team", "contact"}
        THEN {Done(st, "contact_team", {})}
        ELSE IF message_lower \in {"4", "back", "menu", "main menu"}
        THEN {Done(clear_state(st), "how_can_i_help", {"exit"})}
        ELSE {Done(st, r, {}) : r \in GenOrFixed("services_list")}

\* lines 294-500
service_collecting_vehicle_details(st, message) ==
    LET order == <<"make", "model", "year", "registration_number">>
        finish(st1, x, gen) ==
            LET missing == FirstMissing(st1, order)
            IN  IF missing # None
                THEN {Done(st1, r, Extracted(x)) : r \in gen \cup {"ask_" \o missing}}
                ELSE {Done(update_state_step(st1, "collecting_service_type"), r,
                           Extracted(x)) : r \in gen \cup {"ask_service_type"}}
        fallback == [make |-> extract_brand_from_message(message),
                     model |-> None,
                     year |-> extract_year_from_message(message),
                     registration_number |-> extract_registration_number(message)]
    IN  UNION {
          IF a.ok
          THEN LET x == [make |-> a.extracted_make, model |-> a.extracted_model,
                         year |-> a.extracted_year,
                         registration_number |-> a.extracted_registration]
                   merged == [k \in VehicleFields |-> Or(x[k], st.data[k])]
                   filled == [k \in VehicleFields |-> Or(merged[k], fallback[k])]
               IN  IF \/ Contains(Lower(a.user_intent), "changing_criteria")
                      \/ Contains(Lower(message), "change")
                   THEN {Done(update_data(update_state_step(st, "showing_services"),
                                          [k \in VehicleFields |-> None]), r, {"change"}) :
                            r \in GenOrFixed("services_list")}
                   ELSE finish(update_data(st, filled),
                               [k \in VehicleFields |-> Or(x[k], fallback[k])],
                               {"generated"})
          ELSE finish(update_data(st, [k \in VehicleFields |->
                                          Or(fallback[k], st.data[k])]),
                      fallback, {})
          : a \in Extraction(ServiceAnalyses)}

\* lines 518-529 (full = TRUE) and 598-610 (full = FALSE): the menu of service types
service_type_from_message(message, full) ==
    LET message_lower == Strip(Lower(message))
        more(S) == IF full THEN S ELSE {}
    IN  IF message_lower \in {"1", "regular"} \cup more({"regular service"})
        THEN "Regular Service"
        ELSE IF message_lower \in {"2", "major"} \cup more({"major service"})
        THEN "Major Service"
        ELSE IF message_lower \in {"3", "accident", "repair"} \cup more({"accident repair"})
        THEN "Accident Repair"
        ELSE IF message_lower \in {"4", "insurance", "claim"} \cup more({"insurance claim"})
        THEN "Insurance Claim"
        ELSE IF message_lower \in {"5", "other"} THEN "Other"
        ELSE None

\* lines 502-639
service_collecting_service_type(st, message) ==
    LET accept(t) == update_state_step(update_data(st, [service_type |-> t]),
                                       "collecting_customer_details")
    IN  UNION {
          IF a.ok
          THEN LET service_type == Or(a.extracted_service_type,
                                      service_type_from_message(message, TRUE))
               IN  IF \/ Contains(Lower(a.user_intent), "changing_criteria")
                      \/ Contains(Strip(Lower(message)), "change")
                   THEN {Done(update_data(update_state_step(st, "collecting_vehicle_details"),
                                          [service_type |-> None]), r, {"change"}) :
                            r \in GenOrFixed("what_to_change")}
                   ELSE IF Truthy(service_type)
                   THEN {Done(accept(service_type), r, {}) : r \in GenOrFixed("ask_name")}
                   ELSE {Done(st, r, {}) : r \in GenOrFixed("ask_service_type")}
          ELSE LET service_type == service_type_from_message(message, FALSE)
               IN  IF Truthy(service_type) THEN {Done(accept(service_type), "ask_name", {})}
                   ELSE {Done(st, "ask_service_type", {})}
          : a \in Extraction(ServiceAnalyses)}

\* re.sub(r'\d+', '', s).strip()
RECURSIVE DropDigits(_)
DropDigits(s) ==
    IF Len(s) = 0 THEN ""
    ELSE (IF IsDigit(SubSeq(s, 1, 1)) THEN "" ELSE SubSeq(s, 1, 1))
         \o DropDigits(SubSeq(s, 2, Len(s)))

\* booking_data (lines 706-715): the fields of the record the booking is made of
BookingFields ==
    {"make", "model", "year", "registration_number", "service_type", "customer_name",
     "phone_number"}

\* the fields the record holds when create_service_booking is called
BookedWith(st) == {"with:" \o k : k \in {f \in BookingFields : Truthy(st.data[f])}}

\* a booking after which the record stays as it is
service_create_booking_keeping(st) ==
    {Done(st, "service_booking_confirmed", {"booked"} \cup BookedWith(st)),
     Done(st, "booking_error_raw", {"booking_failed", "raw_error"})}

\* create_service_booking succeeds (the record is cleared) or raises
service_create_booking(st) ==
    {Done(clear_state(st), "service_booking_confirmed", {"booked"} \cup BookedWith(st)),
     Done(st, "booking_error_raw", {"booking_failed", "raw_error"})}

\* lines 641-855
service_collecting_customer_details(st, message) ==
    LET has_digits == CountDigits(message) >= 10
        ok_branch ==
            LET phone == IF has_digits /\ ~Truthy(st.data["phone_number"]) THEN PHONE
                         ELSE st.data["phone_number"]
                name == IF Truthy(phone) THEN Strip(DropDigits(message)) ELSE message
                customer_name == IF ~Truthy(st.data["customer_name"]) /\ Len(name) >= 2
                                 THEN TEXT ELSE st.data["customer_name"]
                st1 == IF customer_name # st.data["customer_name"]
                       THEN update_data(st, [customer_name |-> customer_name]) ELSE st
                st2 == IF Truthy(phone) THEN update_data(st1, [phone_number |-> phone])
                       ELSE st1
            IN  IF ~Truthy(customer_name) THEN {Done(st2, r, {}) : r \in GenOrFixed("ask_name")}
                ELSE IF ~Truthy(phone) THEN {Done(st2, r, {}) : r \in GenOrFixed("ask_phone")}
                ELSE service_create_booking(st2)
        error_branch ==
            IF ~Truthy(st.data["customer_name"]) /\ Len(Strip(message)) < 2
            THEN {Done(st, "ask_valid_name", {})}
            ELSE LET st1 == IF ~Truthy(st.data["customer_name"])
                            THEN update_data(st, [customer_name |-> TEXT]) ELSE st
                 IN  IF Truthy(st1.data["phone_number"]) THEN service_create_booking(st1)
                     ELSE IF has_digits
                     THEN service_create_booking(update_data(st1, [phone_number |-> PHONE]))
                     ELSE {Done(st1, "ask_phone", {})}
    IN  ok_branch \cup error_branch

\* line 171
service_needs_init(st) == ~st.exists \/ st.flow_name # SERVICE

\* handle_service_booking_flow (lines 159-857)
handle_service_booking_flow(st, message, intent_result) ==
    IF service_needs_init(st) THEN service_init
    ELSE CASE st.step = "showing_services" -> service_showing_services(st, message)
           [] st.step = "collecting_vehicle_details" ->
                service_collecting_vehicle_details(st, message)
           [] st.step = "collecting_service_type" ->
                service_collecting_service_type(st, message)
           [] st.step = "collecting_customer_details" ->
                service_collecting_customer_details(st, message)
           [] OTHER -> {Done(st, NOT_SURE, {})}

---------------------------------------------------------------------------
(* main.py: the dispatcher.  The transport accepts every send, no handler  *)
(* runs into the time-out and no handler raises: send failures, missing    *)
(* credentials, time-outs and the fall-through after a handler exception   *)
(* are outside this model.                                                 *)

\* the handler of one of VALID_FLOWS, as called through call_flow_handler_with_timeout
Handler(flow, st, text, intent_result) ==
    CASE flow = BROWSE -> handle_browse_car_flow(st, text, intent_result)
      [] flow = EMI -> handle_emi_flow(st, text, intent_result)
      [] flow = VALUATION -> handle_car_valuation_flow(st, text, intent_result)
      [] flow = SERVICE -> handle_service_booking_flow(st, text, intent_result)

TROUBLE == "trouble_switching"

\* the dispatcher without the marker check (lines 647-655 and the like)
handle_flow_switch_marker_ignoring(o, text, intent_result, current_flow) == {o}

\* the handler of `flow` was called by handle_flow_switch_marker (lines 357-377)
Invoked(flow) == "invoke:" \o flow

\* handle_flow_switch_marker calling itself on the reply of the handler it called
handle_flow_switch_marker_nested(o, text, intent_result, current_flow) ==
    IF ~IsMarker(o.reply) THEN {o}
    ELSE LET target == Strip(MarkerTarget(o.reply))
         IN  IF target \notin VALID_FLOWS \/ target = current_flow
             THEN {[o EXCEPT !.reply = TROUBLE, !.ev = @ \cup {"marker_refused"}]}
             ELSE UNION {
                    IF IsMarker(q.reply) /\ Strip(MarkerTarget(q.reply)) \in VALID_FLOWS
                    THEN {[n EXCEPT !.ev = o.ev \cup q.ev \cup n.ev
                                          \cup {"marker_followed", Invoked(target),
                                                Invoked(Strip(MarkerTarget(q.reply)))}] :
                             n \in Handler(Strip(MarkerTarget(q.reply)), q.st, text,
                                           intent_result)}
                    ELSE {[q EXCEPT !.ev = o.ev \cup q.ev
                                          \cup {"marker_followed", Invoked(target)}]}
                    : q \in Handler(target, o.st, text, intent_result)}

\* handle_flow_switch_marker (lines 315-382) applied to an outcome of a handler,
\* followed by the check for a nested marker
handle_flow_switch_marker(o, text, intent_result, current_flow) ==
    IF ~IsMarker(o.reply) THEN {o}
    ELSE LET target == Strip(MarkerTarget(o.reply))
         IN  IF target \notin VALID_FLOWS \/ target = current_flow
             THEN {[o EXCEPT !.reply = TROUBLE, !.ev = @ \cup {"marker_refused"}]}
             ELSE {[q EXCEPT !.reply = IF IsMarker(q.reply) THEN TROUBLE ELSE q.reply,
                             !.ev = o.ev \cup q.ev
                                       \cup {"marker_followed", Invoked(target)}] :
                      q \in Handler(target, o.st, text, intent_result)}

\* send_whatsapp_message (lines 973-1033): with user_message the exchange is
\* appended to the history
send_whatsapp_message(st, user_message) ==
    IF user_message THEN add_message_to_history(st) ELSE st

\* texts a user sends
Messages ==
    {"1", "2", "3", "yes", "no", "change", "back", "menu", "hatchback", "honda",
     "5 lakh", "calculate emi", "book service", "value my car", "show me cars",
     "9876543210"}

\* extract_intent: an IntentResult, or IntentExtractionError (present = FALSE)
IntentResults ==
    {IntentResult("unknown", {}, FALSE),
     IntentResult("calculate_emi", {}, TRUE),
     IntentResult("provide_date", {"date"}, TRUE)}

\* the NoIntent object of lines 459-462
NoIntent == IntentResult("negative_response", {}, TRUE)

UNCLEAR_INTENTS == {"unknown", "unclear", "ambiguous", "unsure"}

\* lines 568-572
is_confused(intent_result) ==
    \/ ~intent_result.confident
    \/ Lower(intent_result.intent) \in UNCLEAR_INTENTS
    \/ (Lower(intent_result.intent) = "unknown" /\ intent_result.entities = {})

\* route_to_flow: a FlowRoutingResult, or FlowRoutingError (ok = FALSE)
RoutingResults ==
    {[ok |-> TRUE, target_flow |-> f, should_switch |-> s] :
        f \in VALID_FLOWS \cup {None}, s \in BOOLEAN}
    \cup {[ok |-> FALSE, target_flow |-> None, should_switch |-> FALSE]}

\* lines 610-633: target_flow and what is left of routing_result
Decision(rr, intent_result, text, current_flow) ==
    IF rr.ok
    THEN [target_flow |-> IF rr.should_switch THEN rr.target_flow ELSE None,
          routing_target |-> rr.target_flow]
    ELSE [target_flow |-> detect_flow_switch(intent_result, text, current_flow, None),
          routing_target |-> None]

Decisions(intent_result, text, current_flow) ==
    {Decision(rr, intent_result, text, current_flow) : rr \in RoutingResults}

\* a finished run of process_text_message
Run(o, path, target, user_message) ==
    [st |-> send_whatsapp_message(o.st, user_message), reply |-> o.reply, ev |-> o.ev,
     path |-> path, target |-> target]

\* `state and state.flow_name`
InFlow(st) == st.exists /\ st.flow_name \in VALID_FLOWS

\* lines 416-449: "change" / "modify" inside a flow goes to the flow, intent None
change_shortcut(st, text) ==
    IF InFlow(st) /\ Strip(Lower(text)) \in {"change", "modify"}
    THEN {Run(o, "change_shortcut", None, FALSE) :
             o \in Handler(st.flow_name, st, text, NoIntentResult)}
    ELSE {}

\* lines 451-507: "no" / "nope" inside a flow goes to the flow with NoIntent
no_shortcut(st, text) ==
    IF InFlow(st) /\ Strip(Lower(text)) \in {"no", "nope"}
    THEN {Run(o, "no_shortcut", None, FALSE) :
             o \in Handler(st.flow_name, st, text, NoIntent)}
    ELSE {}

shortcut(st, text) ==
    InFlow(st) /\ Strip(Lower(text)) \in {"change", "modify", "no", "nope"}

\* line 518
awaiting(st) == st.exists /\ Truthy(st.data["awaiting_intent_confirmation"])

\* lines 931-938: extract_intent raised IntentExtractionError
intent_failure(st, text) ==
    IF shortcut(st, text) THEN {}
    ELSE {Run(Done(st, "intent_fallback", {}), "intent_error", None, TRUE)}

\* lines 574-608: the classifier is confused and the user is in no flow
clarification(st, text) ==
    IF shortcut(st, text) \/ awaiting(st) \/ st.flow_name # None THEN {}
    ELSE {Run(Done(update_data(st, [awaiting_intent_confirmation |-> "True",
                                    pending_intent_message |-> TEXT,
                                    pending_intent |-> ir.intent]),
                   "clarification", {"clarify"}), "clarify", None, TRUE) :
             ir \in {i \in IntentResults : is_confused(i)}}

\* the intent results with which the run goes on to the router (lines 518-608)
RoutedIntents(st) ==
    {ir \in IntentResults : awaiting(st) \/ ~(is_confused(ir) /\ st.flow_name = None)}

\* lines 537-542
after_confirmation(st) ==
    IF awaiting(st)
    THEN update_data(st, [awaiting_intent_confirmation |-> "False",
                          pending_intent_message |-> None, pending_intent |-> None])
    ELSE st

\* the router leaves the user where they are: target_flow is None or the current flow
Stays(st, text, ir) ==
    {d \in Decisions(ir, text, st.flow_name) : d.target_flow \in {None, st.flow_name}}

\* lines 641-727: the handler of the new flow X runs on the cleared record
switched(cleared, X, text, ir) ==
    UNION {{Run(q, "switch", X, TRUE) : q \in handle_flow_switch_marker(o, text, ir, X)}
           : o \in Handler(X, cleared, text, ir)}

\* lines 637-727: a switch to another flow
switch_path(st, text) ==
    IF shortcut(st, text) THEN {}
    ELSE LET cleared == clear_state(after_confirmation(st))
         IN  UNION {UNION {
               switched(cleared, X, text, ir)
               : X \in {d.target_flow : d \in Decisions(ir, text, st.flow_name)}
                       \ {None, st.flow_name}}
               : ir \in RoutedIntents(st)}

\* lines 729-834: the handler of the active flow
active_path(st, text) ==
    IF shortcut(st, text) \/ ~InFlow(st) THEN {}
    ELSE UNION {UNION {
           {Run(q, "active", None, TRUE) :
               q \in handle_flow_switch_marker(o, text, ir, st.flow_name)}
           : o \in IF Stays(st, text, ir) = {} THEN {}
                   ELSE Handler(st.flow_name, after_confirmation(st), text, ir)}
           : ir \in RoutedIntents(st)}

\* lines 836-890: no active flow and the router names a flow
idle_route_path(st, text) ==
    IF shortcut(st, text) \/ InFlow(st) \/ st.flow_name # None THEN {}
    ELSE UNION {UNION {
           {Run(o, "idle_route", X, TRUE) :
               o \in Handler(X, after_confirmation(st), text, ir)}
           : X \in {d.routing_target : d \in Stays(st, text, ir)} \ {None}}
           : ir \in RoutedIntents(st)}

\* lines 892-929: the general answer
generic_path(st, text) ==
    IF shortcut(st, text) \/ InFlow(st) THEN {}
    ELSE UNION {
           IF \E d \in Stays(st, text, ir) : st.flow_name # None \/ d.routing_target = None
           THEN {Run(Done(after_confirmation(st), r, {}), "generic", None, TRUE) :
                    r \in {"generated_response", "generic_fallback"}}
           ELSE {}
           : ir \in RoutedIntents(st)}

---------------------------------------------------------------------------
(* The system: messages arrive on the webhook and are processed one by one *)

\* what the last run of process_text_message did for a user
\* from, had: the flow and the filled data keys of the record the run started with
NoLast == [path |-> None, target |-> None, reply |-> None, ev |-> {}, from |-> None,
           had |-> {}]

Init ==
    /\ store = [u \in OneUser |-> NoState]
    /\ inbox = [u \in Users |-> None]
    /\ last = [u \in Users |-> NoLast]
    /\ d_intent = NoIntentResult
    /\ d_message = ""
    /\ d_flow = None
    /\ d_step = None
    /\ d_result = None
    /\ d_pc = "idle"
    /\ llm = "flaky"
    /\ call = {}
    /\ result = {}
    /\ tasks = <<>>
    /\ bookings = 0

\* the webhook hands a text message of user u to process_text_message
Receive ==
    \E u \in Users, m \in Messages :
        /\ d_pc = "idle"
        /\ inbox[u] = None
        /\ inbox' = [inbox EXCEPT ![u] = m]
        /\ last' = [last EXCEPT ![u] = NoLast]
        /\ UNCHANGED <<store, detectVars, llm, callVars, taskVars>>

\* the outcome written to one record that all users share
Deliver_shared(u, r) ==
    /\ store' = [b \in DOMAIN store |-> r.st]
    /\ last' = [last EXCEPT ![u] = [path |-> r.path, target |-> r.target,
                                    reply |-> r.reply, ev |-> r.ev,
                                    from |-> store[u].flow_name,
                                    had |-> {k \in DataKeys : store[u].data[k] # None}]]
    /\ inbox' = [inbox EXCEPT ![u] = None]
    /\ UNCHANGED <<detectVars, llm, callVars, taskVars>>

\* process_text_message ends with outcome r for user u
Deliver(u, r) ==
    /\ store' = [store EXCEPT ![u] = r.st]
    /\ last' = [last EXCEPT ![u] = [path |-> r.path, target |-> r.target,
                                    reply |-> r.reply, ev |-> r.ev,
                                    from |-> store[u].flow_name,
                                    had |-> {k \in DataKeys : store[u].data[k] # None}]]
    /\ inbox' = [inbox EXCEPT ![u] = None]
    /\ UNCHANGED <<detectVars, llm, callVars, taskVars>>

ProcessChangeShortcut ==
    \E u \in Users : /\ inbox[u] # None
                     /\ \E r \in change_shortcut(store[u], inbox[u]) : Deliver(u, r)

ProcessNoShortcut ==
    \E u \in Users : /\ inbox[u] # None
                     /\ \E r \in no_shortcut(store[u], inbox[u]) : Deliver(u, r)

ProcessIntentFailure ==
    \E u \in Users : /\ inbox[u] # None
                     /\ \E r \in intent_failure(store[u], inbox[u]) : Deliver(u, r)

ProcessClarification ==
    \E u \in Users : /\ inbox[u] # None
                     /\ \E r \in clarification(store[u], inbox[u]) : Deliver(u, r)

ProcessSwitch ==
    \E u \in Users : /\ inbox[u] # None
                     /\ \E r \in switch_path(store[u], inbox[u]) : Deliver(u, r)

ProcessActiveFlow ==
    \E u \in Users : /\ inbox[u] # None
                     /\ \E r \in active_path(store[u], inbox[u]) : Deliver(u, r)

ProcessIdleRoute ==
    \E u \in Users : /\ inbox[u] # None
                     /\ \E r \in idle_route_path(store[u], inbox[u]) : Deliver(u, r)

ProcessGeneric ==
    \E u \in Users : /\ inbox[u] # None
                     /\ \E r \in generic_path(store[u], inbox[u]) : Deliver(u, r)

Next ==
    \/ Receive
    \/ ProcessChangeShortcut
    \/ ProcessNoShortcut
    \/ ProcessIntentFailure
    \/ ProcessClarification
    \/ ProcessSwitch
    \/ ProcessActiveFlow
    \/ ProcessIdleRoute
    \/ ProcessGeneric

Spec == Init /\ [][Next]_vars

---------------------------------------------------------------------------
(* detect_flow_switch on its own: every call drawn from the sets below     *)

\* messages: short answers, loose keywords, explicit phrases, and one text for
\* every combination of flows whose vocabulary it matches
DetectMessages ==
    {"1", "2", " 2 ", "yes", "YES", "no", "ok", "n", "emi", "EMI ", "suv", "change",
     "okay", "hello there", "hatchback",
     "loan", "repair", "what is the price", "i want a sedan", "buy",
     "calculate emi", "book service", "value my car", "show me cars", "Calculate EMI",
     "book service emi", "repair price", "i want repair", "loan price", "i want a loan",
     "i want to sell", "repair loan price", "i want repair loan", "i want repair price",
     "i want loan price", "i want repair loan price"}

DetectIntents ==
    {NoIntentResult,
     IntentResult("unknown", {}, FALSE),
     IntentResult("provide_date", {"date"}, TRUE),
     IntentResult("calculate_emi", {}, TRUE),
     IntentResult("service_booking", {}, TRUE),
     IntentResult("car_valuation", {}, TRUE),
     IntentResult("browse_cars", {}, TRUE),
     IntentResult("general_inquiry", {"car_type"}, TRUE)}

DetectSteps == {None, "collecting_criteria"}

DetectInit ==
    /\ store = [u \in OneUser |-> NoState]
    /\ inbox = [u \in Users |-> None]
    /\ last = [u \in Users |-> NoLast]
    /\ d_intent \in DetectIntents
    /\ d_message \in DetectMessages
    /\ d_flow \in VALID_FLOWS \cup {None}
    /\ d_step \in DetectSteps
    /\ d_result = None
    /\ d_pc = "called"
    /\ llm = "flaky"
    /\ call = {}
    /\ result = {}
    /\ tasks = <<>>
    /\ bookings = 0

Detect ==
    /\ d_pc = "called"
    /\ d_result' = detect_flow_switch(d_intent, d_message, d_flow, d_step)
    /\ d_pc' = "returned"
    /\ UNCHANGED <<mainVars, d_intent, d_message, d_flow, d_step, llm, callVars, taskVars>>

DetectNext == Detect

SpecDetect == DetectInit /\ [][DetectNext]_vars

\* the flows whose vocabulary the call matches (lines 217-250)
Matching ==
    LET intent_lower == Lower(d_intent.intent)
        text_lower == Lower(d_message)
    IN  {f \in VALID_FLOWS :
           \/ f = SERVICE /\ is_service_intent(intent_lower, text_lower)
           \/ f = EMI /\ is_emi_intent(intent_lower, text_lower)
           \/ f = VALUATION /\ is_valuation_intent(intent_lower, text_lower)
           \/ f = BROWSE /\ is_browse_intent(intent_lower, text_lower, d_intent.entities)}

\* the priority order service_booking > emi > valuation > browse_car
Priority == <<SERVICE, EMI, VALUATION, BROWSE>>

\* the matching flow of highest priority, None when no flow matches
Candidate ==
    IF Matching = {} THEN None
    ELSE Priority[Min({i \in 1..Len(Priority) : Priority[i] \in Matching})]

\* C2: with a current flow set, detect_flow_switch returns None for every short
\* response (a word of the fixed vocabulary, or at most three characters after
\* trimming), whatever the intent result and the current step are.
C2_ShortResponseNeverSwitches ==
    (d_pc = "returned" /\ d_flow # None /\ is_short_response(d_message))
        => d_result = None

\* C2 witness: a short response inside a flow whose intent and text match
\* another flow, and the call returned None
C2_Witness ==
    /\ d_pc = "returned"
    /\ d_flow = BROWSE
    /\ d_intent.present
    /\ Strip(Lower(d_message)) = "emi"
    /\ Candidate = EMI
    /\ d_result = None

\* C5: for a non-short message whose candidate flow differs from the current
\* flow: inside a flow the candidate is returned exactly when the message holds
\* one of the candidate's explicit phrases, and None otherwise; with no flow
\* active the candidate is returned on any loose match.
C5_TwoTierStrictness ==
    (/\ d_pc = "returned"
     /\ d_intent.present
     /\ ~is_short_response(d_message)
     /\ Candidate \notin {None, d_flow})
        => d_result = IF d_flow = None
                         \/ ContainsAny(Lower(d_message), explicit_keywords(Candidate))
                      THEN Candidate
                      ELSE None

\* C5 witness: inside a flow, a loose match for another flow without one of its
\* explicit phrases is not returned
C5_Witness ==
    /\ d_pc = "returned"
    /\ d_flow = BROWSE
    /\ d_intent.present
    /\ d_message = "i want a loan"
    /\ Candidate = EMI
    /\ d_result = None

\* C6: when the call matches several flows the flow returned, if any, is the one
\* of highest priority among service_booking > emi > valuation > browse_car, and
\* with no flow active that flow is returned.
C6_FixedPriority ==
    (d_pc = "returned" /\ d_intent.present)
        => /\ d_result \in {None, Candidate}
           /\ d_flow = None => d_result = Candidate

\* C6 witness: a call that matches all four flows returned service_booking
C6_Witness ==
    /\ d_pc = "returned"
    /\ Matching = VALID_FLOWS
    /\ d_flow = None
    /\ d_result = SERVICE

---------------------------------------------------------------------------
(* Properties of the dispatcher and the flow handlers                      *)

\* this step is a run of process_text_message on the message of user u
Handled(u) == inbox[u] # None /\ inbox'[u] = None

C4_TwoStaysInBrowse ==
    [][\A u \in Users :
          (/\ Handled(u)
           /\ store[u].flow_name = BROWSE
           /\ store[u].step = "collecting_criteria"
           /\ inbox[u] = "2"
           /\ last'[u].path # "intent_error")
              => /\ store'[u].flow_name = BROWSE
                 /\ last'[u].path = "active"]_vars

\* C8: a user whose record has no flow and whom the router sends to Browse-Car
\* (the message is no exit request) is in Browse-Car at its first step afterwards.
C8_IdleRouteInitialises ==
    [][\A u \in Users :
          (/\ Handled(u)
           /\ store[u].flow_name = None
           /\ ~is_exit_request(inbox[u])
           /\ last'[u].path = "idle_route"
           /\ last'[u].target = BROWSE
           /\ "switch_marker" \notin last'[u].ev)
              => /\ store'[u].flow_name = BROWSE
                 /\ store'[u].step \in {"collecting_criteria", "showing_cars"}]_vars

\* C9: a message with an exit keyword that reaches the handler of the active
\* flow ends the flow, in each flow and at every step.
C9_ExitEndsFlow ==
    [][\A u \in Users :
          (/\ Handled(u)
           /\ InFlow(store[u])
           /\ is_exit_request(inbox[u])
           /\ last'[u].path = "active")
              => ~InFlow(store'[u])]_vars

\* C10: the answer "hatchback" given at collecting_criteria of Browse-Car
\* continues the flow: the record is not cleared and the reply is not the main menu.
C10_HatchbackContinues ==
    [][\A u \in Users :
          (/\ Handled(u)
           /\ store[u].flow_name = BROWSE
           /\ store[u].step = "collecting_criteria"
           /\ inbox[u] = "hatchback"
           /\ last'[u].path = "active")
              => /\ store'[u].flow_name = BROWSE
                 /\ last'[u].reply # MAIN_MENU]_vars

\* the data keys a flow fills
FlowData(flow) ==
    CASE flow = BROWSE ->
           {"brand", "budget", "car_type", "awaiting_confirmation", "pending_brand",
            "pending_budget", "pending_car_type", "cars", "selected_car",
            "test_drive_date", "test_drive_time", "test_drive_name", "test_drive_phone",
            "test_drive_has_dl", "test_drive_location", "test_drive_address"}
      [] flow = EMI -> {"selected_car", "down_payment", "tenure", "emi_data"}
      [] flow = VALUATION -> {"brand", "model", "year", "fuel_type", "condition", "valuation"}
      [] flow = SERVICE ->
           {"service", "make", "model", "year", "registration_number", "service_type",
            "customer_name", "phone_number"}
      [] OTHER -> {}

\* the steps the initialisation of a flow ends in
InitialSteps(flow) ==
    CASE flow = BROWSE -> {"collecting_criteria", "showing_cars"}
      [] flow = EMI -> {"selecting_car"}
      [] flow = VALUATION -> {"collecting_info", "showing_valuation"}
      [] flow = SERVICE -> {"showing_services"}
      [] OTHER -> {}

\* the first steps as C7 lists them
FirstSteps(flow) ==
    IF flow = VALUATION THEN {"collecting_info"} ELSE InitialSteps(flow)

\* the run switched user u from an active flow to another one
Switched(u) == Handled(u) /\ InFlow(store[u]) /\ last'[u].path = "switch"

HasWord(t, k) ==
    \E i \in 1..(Len(t) - Len(k) + 1) :
        SubSeq(t, i, i + Len(k) - 1) = k /\ WordAt(t, i, i + Len(k) - 1)

\* an explicit change, exit or flow-switch request
ExplicitRequest(message) ==
    LET t == Strip(Lower(message))
    IN  \/ ContainsAny(t, {"change", "modify"})
        \/ \E k \in EXIT_KEYWORDS : HasWord(t, k)
        \/ \E f \in VALID_FLOWS : ContainsAny(t, explicit_keywords(f))

\* the fields a slot-filling step collects
SlotFields(flow, step) ==
    CASE flow = BROWSE /\ step = "collecting_criteria" -> {"brand", "budget", "car_type"}
      [] flow = BROWSE /\ step \in TEST_DRIVE_STEPS ->
           {"test_drive_date", "test_drive_time", "test_drive_name", "test_drive_phone",
            "test_drive_has_dl", "test_drive_location", "test_drive_address"}
      [] flow = VALUATION /\ step = "collecting_info" ->
           {"brand", "model", "year", "fuel_type", "condition"}
      [] flow = SERVICE /\ step = "collecting_vehicle_details" ->
           {"make", "model", "year", "registration_number"}
      [] OTHER -> {}

\* the paths of process_text_message on which the handler of the active flow
\* is given the message
HandlerPaths == {"active", "change_shortcut", "no_shortcut"}

\* C1: in a slot-filling step, a field that holds a value still holds one after
\* the handler of the flow has dealt with a message that is no explicit change,
\* exit or flow-switch request and in which the analysis saw no wish to change
\* (the end of a test-drive booking for lack of a driving licence aside).
C1_NeverOverwriteKnown ==
    [][\A u \in Users :
          \A k \in SlotFields(store[u].flow_name, store[u].step) :
              (/\ Handled(u)
               /\ store[u].data[k] # None
               /\ ~ExplicitRequest(inbox[u])
               /\ last'[u].path \in HandlerPaths
               /\ "change" \notin last'[u].ev
               /\ "dl_rejected" \notin last'[u].ev)
                  => store'[u].data[k] # None]_vars

\* the message is one of the texts the dispatcher hands straight to the active flow
ShortcutText(t) == Strip(Lower(t)) \in {"change", "modify", "no", "nope"}

\* C11: while a flow is active, "change"/"modify" and "no"/"nope" go straight to
\* the handler of that flow (no classification, no routing) and the record is
\* still there with the same flow_name afterwards; the one exception is the run
\* that ends in the driving-license rejection of the test-drive steps.
C11_ShortcutKeepsContext ==
    [][\A u \in Users :
          (Handled(u) /\ InFlow(store[u]) /\ ShortcutText(inbox[u]))
              => /\ last'[u].path \in {"change_shortcut", "no_shortcut"}
                 /\ \/ store'[u].exists /\ store'[u].flow_name = store[u].flow_name
                    \/ /\ "dl_rejected" \in last'[u].ev
                       /\ store[u].flow_name = BROWSE
                       /\ store[u].step \in TEST_DRIVE_STEPS
                       /\ ~store'[u].exists
                       /\ last'[u].reply = DL_APOLOGY]_vars

\* C12: a "no" to the driving-license question clears the record and is answered
\* with the apology, whatever was collected before and whoever understood the
\* answer: after the run no record is left that holds the answer "no licence".
C12_LicenseNoClears ==
    [][\A u \in Users :
          (/\ Handled(u)
           /\ store[u].flow_name = BROWSE
           /\ store[u].step = "test_drive_dl"
           /\ Strip(Lower(inbox[u])) = "no")
              => /\ store'[u].exists => store'[u].data["test_drive_has_dl"] # "False"
                 /\ "dl_rejected" \in last'[u].ev
                       => /\ store'[u].flow_name = None
                          /\ last'[u].reply = DL_APOLOGY]_vars

\* the fixed order of the steps of a flow
StepOrder(flow) ==
    CASE flow = BROWSE ->
           <<"collecting_criteria", "showing_cars", "car_selected", "test_drive_date",
             "test_drive_time", "test_drive_name", "test_drive_phone", "test_drive_dl",
             "test_drive_location", "test_drive_address", "test_drive_confirm">>
      [] flow = EMI -> <<"selecting_car", "down_payment", "selecting_tenure", "showing_emi">>
      [] flow = VALUATION -> <<"collecting_info", "showing_valuation">>
      [] flow = SERVICE ->
           <<"showing_services", "collecting_vehicle_details", "collecting_service_type",
             "collecting_customer_details">>
      [] OTHER -> <<>>

StepsOf(flow) == {StepOrder(flow)[i] : i \in 1..Len(StepOrder(flow))}

Rank(flow, step) == CHOOSE i \in 1..Len(StepOrder(flow)) : StepOrder(flow)[i] = step

\* the fields a step has to have collected before the flow goes past it
RequiredFields(flow, step, data) ==
    CASE flow = BROWSE /\ step = "collecting_criteria" -> {"brand", "budget", "car_type"}
      [] flow = BROWSE /\ step = "showing_cars" -> {"selected_car"}
      [] flow = BROWSE /\ step = "test_drive_date" -> {"test_drive_date"}
      [] flow = BROWSE /\ step = "test_drive_time" -> {"test_drive_time"}
      [] flow = BROWSE /\ step = "test_drive_name" -> {"test_drive_name"}
      [] flow = BROWSE /\ step = "test_drive_phone" -> {"test_drive_phone"}
      [] flow = BROWSE /\ step = "test_drive_dl" -> {"test_drive_has_dl"}
      [] flow = BROWSE /\ step = "test_drive_location" -> {"test_drive_location"}
      [] flow = BROWSE /\ step = "test_drive_address" ->
           IF data["test_drive_location"] = "home" THEN {"test_drive_address"} ELSE {}
      [] flow = EMI /\ step = "selecting_car" -> {"selected_car"}
      [] flow = EMI /\ step = "down_payment" -> {"down_payment"}
      [] flow = EMI /\ step = "selecting_tenure" -> {"tenure"}
      [] flow = VALUATION /\ step = "collecting_info" ->
           {"brand", "model", "year", "fuel_type", "condition"}
      [] flow = SERVICE /\ step = "collecting_vehicle_details" ->
           {"make", "model", "year", "registration_number"}
      [] flow = SERVICE /\ step = "collecting_service_type" -> {"service_type"}
      [] OTHER -> {}

\* C13: within one flow the step only moves forward along the order of the
\* flow, or back to the first (collecting) step on a change request; it never
\* moves back otherwise and never goes past a step whose fields are missing.
C13_StepMonotone ==
    [][\A u \in Users :
          (/\ Handled(u)
           /\ InFlow(store[u])
           /\ store'[u].flow_name = store[u].flow_name
           /\ last'[u].path \in HandlerPaths
           /\ store[u].step \in StepsOf(store[u].flow_name)
           /\ store'[u].step \in StepsOf(store[u].flow_name))
              => LET f == store[u].flow_name
                     i == Rank(f, store[u].step)
                     j == Rank(f, store'[u].step)
                 IN  /\ j < i => ("change" \in last'[u].ev /\ j = 1)
                     /\ \A n \in i..(j - 1) :
                           \A k \in RequiredFields(f, StepOrder(f)[n], store'[u].data) :
                               store'[u].data[k] # None]_vars

---------------------------------------------------------------------------
(* The criteria conversation on its own: a new user is routed to Browse-Car *)
(* and answers the questions of collecting_criteria; the dispatcher and the *)
(* handler are the ones above, the texts are the ones below                 *)

CriteriaMessages ==
    {"I want a Honda", "5-10 lakh", "Sedan", "under 7 lakh", "hatchback please", "yes", "no",
     "Honda Sedan under 7 lakh"}

CriteriaInit == Init

\* the webhook hands over a text while the user is new or at collecting_criteria
CriteriaReceive ==
    \E u \in Users, m \in CriteriaMessages :
        /\ d_pc = "idle"
        /\ inbox[u] = None
        /\ ~store[u].exists \/ store[u].step = "collecting_criteria"
        /\ inbox' = [inbox EXCEPT ![u] = m]
        /\ last' = [last EXCEPT ![u] = NoLast]
        /\ UNCHANGED <<store, detectVars, llm, callVars, taskVars>>

\* process_text_message: a new user is routed to Browse-Car, a user in the flow
\* is served by the handler of the flow
CriteriaHandle ==
    \E u \in Users :
        /\ inbox[u] # None
        /\ \E r \in {x \in idle_route_path(store[u], inbox[u]) : x.target = BROWSE}
                    \cup active_path(store[u], inbox[u])
                    \cup no_shortcut(store[u], inbox[u]) :
              Deliver(u, r)

CriteriaNext == CriteriaReceive \/ CriteriaHandle

SpecCriteria == CriteriaInit /\ [][CriteriaNext]_vars

\* the search calls among the events of a run
SearchCalls(ev) == {e \in ev : StartsWith(e, "search_cars(")}

---------------------------------------------------------------------------
(* The clarification question and its confirmation                        *)

Canonical(st) == [k \in {"brand", "budget", "car_type"} |-> st.data[k]]

\* the handler ran at step collecting_criteria and its analysis of the message
\* had needs_clarification and a clarification_question
Clarifying(u) ==
    /\ Handled(u)
    /\ store[u].flow_name = BROWSE
    /\ store[u].step = "collecting_criteria"
    /\ last'[u].path \in HandlerPaths
    /\ "clarify" \in last'[u].ev

\* what every clarification leaves behind, the canonical fields aside
ClarificationStored(u) ==
    /\ store'[u].flow_name = BROWSE
    /\ store'[u].step = "collecting_criteria"
    /\ store'[u].data["awaiting_confirmation"] = "True"
    /\ last'[u].reply = "clarification_question"
    /\ SearchCalls(last'[u].ev) = {}

Confirming(u) ==
    /\ Handled(u)
    /\ store[u].flow_name = BROWSE
    /\ store[u].step = "collecting_criteria"
    /\ Truthy(store[u].data["awaiting_confirmation"])
    /\ last'[u].path \in HandlerPaths

PendingCleared(st) ==
    /\ st.exists
    /\ \A k \in DOMAIN ClearPending : st.data[k] = ClearPending[k]

\* C16: while awaiting_confirmation is set, an affirmative short reply commits every
\* pending value into brand, budget and car_type and clears the pending values and
\* the flag; a negative short reply clears the pending values and the flag, leaves
\* brand, budget, car_type and the step as they were, and re-asks for the field that
\* was pending: the car type, else the brand, else the budget.
C16_ConfirmationReply ==
    [][\A u \in Users :
          Confirming(u) =>
              LET message_lower == Strip(Lower(inbox[u]))
                  pending(k) == Truthy(store[u].data[k])
              IN  /\ message_lower \in CONFIRMING =>
                        /\ PendingCleared(store'[u])
                        /\ Canonical(store'[u]) = Canonical(CommitPending(store[u]))
                  /\ message_lower \in {"no", "n", "nope", "wrong", "incorrect"} =>
                        /\ PendingCleared(store'[u])
                        /\ Canonical(store'[u]) = Canonical(store[u])
                        /\ store'[u].step = store[u].step
                        /\ pending("pending_car_type") => last'[u].reply = "reask_type"
                        /\ ~pending("pending_car_type") /\ pending("pending_brand")
                               => last'[u].reply = "reask_brand"
                        /\ ~pending("pending_car_type") /\ ~pending("pending_brand")
                               /\ pending("pending_budget")
                               => last'[u].reply = "reask_budget"]_vars


---------------------------------------------------------------------------
(* The time-out of call_flow_handler_with_timeout (main.py, lines 281-312): *)
(* asyncio.wait_for cancels the handler at the await it is waiting in and   *)
(* the fixed text is the reply; what the handler wrote before is not undone *)

TIMED_OUT == "taking_longer"

\* handle_browse_car_flow cancelled: at `await get_brands_from_db()` (line 550),
\* reached with the record as handed over unless the function returned before, or
\* at `await car_db.search_cars(...)`, reached after the criteria were written
\* (the record of an empty search result is the record at that await)
browse_timeouts(st, message, intent_result) ==
    LET target == IF intent_result.present
                  THEN detect_flow_switch(intent_result, message, BROWSE, st.step)
                  ELSE None
    IN  IF target # None \/ browse_exit(message) THEN {}
        ELSE {Done(st, TIMED_OUT, {"timeout"})}
             \cup {Done(o.st, TIMED_OUT, {"timeout"}) :
                      o \in {x \in handle_browse_car_flow(st, message, intent_result) :
                                "search" \in x.ev /\ x.reply = "no_match"}}

\* the time-outs of the handler of `flow`; those of handle_browse_car_flow are modelled
handler_timeouts(flow, st, text, intent_result) ==
    IF flow = BROWSE THEN browse_timeouts(st, text, intent_result) ELSE {}

\* lines 729-834 with a handler that is cancelled
active_timeout(st, text) ==
    IF shortcut(st, text) \/ ~InFlow(st) THEN {}
    ELSE UNION {
           {Run(o, "active", None, TRUE) :
               o \in IF Stays(st, text, ir) = {} THEN {}
                     ELSE handler_timeouts(st.flow_name, after_confirmation(st), text, ir)}
           : ir \in RoutedIntents(st)}

\* lines 637-727 with a handler that is cancelled: the record is cleared before the call
switch_timeout(st, text) ==
    IF shortcut(st, text) THEN {}
    ELSE LET cleared == clear_state(after_confirmation(st))
         IN  UNION {UNION {
               {Run(o, "switch", X, TRUE) : o \in handler_timeouts(X, cleared, text, ir)}
               : X \in {d.target_flow : d \in Decisions(ir, text, st.flow_name)}
                       \ {None, st.flow_name}}
               : ir \in RoutedIntents(st)}

TimeoutMessages == {"I want a Honda", "5-10 lakh", "Sedan", "yes"}

TimeoutInit == Init

\* the webhook hands over a text while the user is new, at collecting_criteria or
\* in the EMI flow
TimeoutReceive ==
    \E u \in Users, m \in TimeoutMessages :
        /\ d_pc = "idle"
        /\ inbox[u] = None
        /\ ~store[u].exists \/ store[u].step = "collecting_criteria"
             \/ store[u].flow_name = EMI
        /\ inbox' = [inbox EXCEPT ![u] = m]
        /\ last' = [last EXCEPT ![u] = NoLast]
        /\ UNCHANGED <<store, detectVars, llm, callVars, taskVars>>

\* process_text_message with handlers that return in time
TimeoutHandle ==
    \E u \in Users :
        /\ inbox[u] # None
        /\ \E r \in {x \in idle_route_path(store[u], inbox[u]) : x.target \in {BROWSE, EMI}}
                    \cup {x \in switch_path(store[u], inbox[u]) : x.target = BROWSE}
                    \cup active_path(store[u], inbox[u]) :
              Deliver(u, r)

\* process_text_message with a handler that runs into the time-out
ProcessTimeout ==
    \E u \in Users :
        /\ inbox[u] # None
        /\ \E r \in active_timeout(store[u], inbox[u])
                    \cup switch_timeout(store[u], inbox[u]) :
              Deliver(u, r)

TimeoutNext == TimeoutReceive \/ TimeoutHandle \/ ProcessTimeout

SpecTimeout == TimeoutInit /\ [][TimeoutNext]_vars

\* C17: when the handler runs into the time-out, the reply is the "taking longer
\* than expected" text and the record has the flow_name, the step and the data it
\* had before the message arrived, and is not cleared.
C17_TimeoutKeepsRecord ==
    [][\A u \in Users :
          (Handled(u) /\ "timeout" \in last'[u].ev)
              => /\ last'[u].reply = TIMED_OUT
                 /\ store[u].exists => store'[u].exists
                 /\ store'[u].flow_name = store[u].flow_name
                 /\ store'[u].step = store[u].step
                 /\ store'[u].data = store[u].data]_vars


---------------------------------------------------------------------------
(* The flow-switch marker in the dispatcher                               *)

\* C18: on every dispatch path the reply sent to the user does not start with
\* "__FLOW_SWITCH__:".
C18_MarkerNeverSent ==
    \A u \in Users : last[u].reply # None => ~IsMarker(last[u].reply)


\* handle_flow_switch_marker on its own: the reply of a handler that has cleared
\* the record, the flow it was called for, the text and the intent result are drawn
\* from the sets below
MarkerReplies ==
    {"ask_missing", FLOW_SWITCH_PREFIX, Marker("loan"), Marker(" emi "), Marker("emi:now")}
    \cup {Marker(f) : f \in VALID_FLOWS}

MarkerTexts == {"calculate emi", "book service", "show me cars", "yes", "5 lakh"}

MarkerInit ==
    /\ store = [u \in OneUser |-> NoState]
    /\ inbox \in [Users -> MarkerTexts]
    /\ last = [u \in Users |-> NoLast]
    /\ d_intent \in IntentResults
    /\ d_message \in MarkerReplies
    /\ d_flow \in VALID_FLOWS
    /\ d_step = None
    /\ d_result = None
    /\ d_pc = "called"
    /\ llm = "flaky"
    /\ call = {}
    /\ result = {}
    /\ tasks = <<>>
    /\ bookings = 0

\* lines 649-656 (and the like): the reply d_message of the handler of d_flow goes
\* through handle_flow_switch_marker and the check for a nested marker
SwitchMarker ==
    \E u \in Users :
        /\ d_pc = "called"
        /\ \E q \in handle_flow_switch_marker(Done(store[u], d_message, {}), inbox[u],
                                              d_intent, d_flow) :
              /\ store' = [store EXCEPT ![u] = q.st]
              /\ last' = [last EXCEPT ![u] = [NoLast EXCEPT !.reply = q.reply, !.ev = q.ev]]
        /\ d_pc' = "returned"
        /\ UNCHANGED <<inbox, d_intent, d_message, d_flow, d_step, d_result, llm, callVars, taskVars>>

MarkerNext == SwitchMarker

SpecMarker == MarkerInit /\ [][MarkerNext]_vars

\* the handlers handle_flow_switch_marker called
Invocations(ev) == {e \in ev : StartsWith(e, "invoke:")}

---------------------------------------------------------------------------
(* The booking that fails                                                 *)

\* the booking collaborator raised while the message of u was handled
BookingFailed(u) == Handled(u) /\ "booking_failed" \in last'[u].ev

\* C20: when create_test_drive_booking (step test_drive_confirm) or
\* create_service_booking (step collecting_customer_details) fails, the reply is the
\* apology and the record stays: same flow_name, same step, and every field that
\* had a value keeps it.
C20_BookingFailureKeepsRecord ==
    [][\A u \in Users :
          BookingFailed(u) =>
              /\ last'[u].reply = "booking_error_raw"
              /\ \/ store[u].flow_name = BROWSE /\ store[u].step = "test_drive_confirm"
                 \/ store[u].flow_name = SERVICE
                      /\ store[u].step = "collecting_customer_details"
              /\ store'[u].exists
              /\ store'[u].flow_name = store[u].flow_name
              /\ store'[u].step = store[u].step
              /\ \A k \in DataKeys :
                    store[u].data[k] # None => store'[u].data[k] = store[u].data[k]]_vars

\* C20 witness: the test-drive booking failed at test_drive_confirm and the record
\* still holds the selected car and the contact details
C20_Witness ==
    \E u \in Users :
        /\ "booking_failed" \in last[u].ev
        /\ last[u].reply = "booking_error_raw"
        /\ store[u].flow_name = BROWSE
        /\ store[u].step = "test_drive_confirm"
        /\ store[u].data["selected_car"] # None
        /\ store[u].data["test_drive_phone"] # None


---------------------------------------------------------------------------
(* Failure replies                                                        *)

\* the replies built as f"... Error: {str(e)}": browse_car_flow.py line 2005,
\* service_booking_flow.py line 739, car_valuation_flow.py line 601
RawErrorReplies == {"booking_error_raw", "valuation_error_raw"}

\* C21: no reply sent to the user contains the text of an exception; every failure
\* path answers with a pre-written text.
C21_NoRawExceptionText ==
    \A u \in Users : last[u].reply \notin RawErrorReplies


---------------------------------------------------------------------------
(* The extraction collaborator is down: every analyze_*_message call raises *)
(* its *AnalysisError and the handlers run their except branches            *)

FallbackMessages ==
    Messages \cup {"Honda City 2018 petrol good", "KA01AB1234", "Sedan", "200000", "24"}

FallbackInit ==
    /\ store = [u \in OneUser |-> NoState]
    /\ inbox = [u \in Users |-> None]
    /\ last = [u \in Users |-> NoLast]
    /\ d_intent = NoIntentResult
    /\ d_message = ""
    /\ d_flow = None
    /\ d_step = None
    /\ d_result = None
    /\ d_pc = "idle"
    /\ llm = "down"
    /\ call = {}
    /\ result = {}
    /\ tasks = <<>>
    /\ bookings = 0

FallbackReceive ==
    \E u \in Users, m \in FallbackMessages :
        /\ d_pc = "idle"
        /\ inbox[u] = None
        /\ inbox' = [inbox EXCEPT ![u] = m]
        /\ last' = [last EXCEPT ![u] = NoLast]
        /\ UNCHANGED <<store, detectVars, llm, callVars, taskVars>>

FallbackNext ==
    \/ FallbackReceive
    \/ ProcessChangeShortcut
    \/ ProcessNoShortcut
    \/ ProcessIntentFailure
    \/ ProcessClarification
    \/ ProcessSwitch
    \/ ProcessActiveFlow
    \/ ProcessIdleRoute
    \/ ProcessGeneric

SpecFallback == FallbackInit /\ [][FallbackNext]_vars

\* what a step collects: the fields it needs, and name and phone at the last step
\* of the service flow
Collects(st) ==
    IF st.flow_name = SERVICE /\ st.step = "collecting_customer_details"
    THEN {"customer_name", "phone_number"}
    ELSE RequiredFields(st.flow_name, st.step, st.data)

\* the run r took the flow of st further: a booking was made, the step moved
\* forward, or the step collected a field it did not have
Advances(st, r) ==
    \/ "booked" \in r.ev
    \/ /\ r.st.exists
       /\ r.st.flow_name = st.flow_name
       /\ r.st.step \in StepsOf(st.flow_name)
       /\ \/ Rank(st.flow_name, r.st.step) > Rank(st.flow_name, st.step)
          \/ /\ r.st.step = st.step
             /\ \E k \in Collects(st) : st.data[k] = None /\ r.st.data[k] # None
             /\ \A k \in Collects(st) : st.data[k] # None => r.st.data[k] = st.data[k]

\* the steps after which a flow has nothing more to collect
TerminalSteps == {"showing_emi", "showing_valuation"}

\* C22: while every extraction call fails, a handler keeps the record and the flow
\* can go on: at every step before the last of a flow there is a reply of the user
\* after which, by the local fallback extraction, the step has collected a further
\* field or the flow has moved to a later step or made its booking.  (The step
\* selecting_car of the EMI flow, which never reads the reply, is left to C24.)
C22_FallbackAdvances ==
    \A u \in Users :
        (/\ llm = "down"
         /\ inbox[u] = None
         /\ InFlow(store[u])
         /\ store[u].step \in StepsOf(store[u].flow_name) \ TerminalSteps
         /\ ~(store[u].flow_name = EMI /\ store[u].step = "selecting_car"))
            => \E m \in FallbackMessages :
                  \E r \in active_path(store[u], m) \cup no_shortcut(store[u], m) :
                      Advances(store[u], r)


---------------------------------------------------------------------------
(* C23: down-payment validation of the EMI flow                           *)

AtDownPayment(st) ==
    /\ st.exists
    /\ st.flow_name = EMI
    /\ st.step = "down_payment"
    /\ Truthy(st.data["selected_car"])

ValidDownPayment(st, a, message) ==
    /\ 0 < down_payment_of(a, message)
    /\ down_payment_of(a, message) < car_price(st.data["selected_car"])

\* the step accepted: it stored the amount and moved to selecting_tenure
Accepted(r) ==
    /\ r.st.step = "selecting_tenure"
    /\ r.st.data["down_payment"] = AMOUNT

\* the step asked again: the record is as it was
ReAsked(st, r) ==
    /\ r.st.step = "down_payment"
    /\ r.st.data["down_payment"] = st.data["down_payment"]
    /\ "down_payment" \notin r.ev

DownPaymentRule(st, a, message, r) ==
    /\ r.st.step = "selecting_tenure" => ValidDownPayment(st, a, message) /\ Accepted(r)
    /\ ~ValidDownPayment(st, a, message) => ReAsked(st, r)

\* C23 as stated: at the down_payment step of the EMI flow, for every message
\* and every outcome of the analysis (failures included), the record moves to
\* selecting_tenure with the down payment stored only when
\* 0 < down_payment < car_price, and for any other down payment the step
\* stays down_payment and the stored down payment is unchanged.
C23_DownPaymentValidated ==
    \A u \in Users :
        AtDownPayment(store[u]) =>
            \A message \in Messages : \A a \in EMIAnalyses :
                \A r \in emi_down_payment_step(store[u], message, a) :
                    DownPaymentRule(store[u], a, message, r)

\* C23 amended: the same, for every message that is not a change request
\* (analysis intent changing_criteria, or "change" in the message, with the
\* analysis succeeding); a change request sends the record back to
\* selecting_car and clears selected_car and down_payment whatever the amount.
C23_DownPaymentValidatedUnlessChange ==
    \A u \in Users :
        AtDownPayment(store[u]) =>
            \A message \in Messages : \A a \in EMIAnalyses :
                \A r \in emi_down_payment_step(store[u], message, a) :
                    IF emi_change_request(a, message)
                    THEN /\ r.st.step = "selecting_car"
                         /\ r.st.data["down_payment"] = None
                    ELSE DownPaymentRule(store[u], a, message, r)

\* the step has accepted a down payment from a record that held a car
C23_Witness ==
    \E u \in Users :
        /\ last[u].path \in HandlerPaths
        /\ last[u].from = EMI
        /\ "selected_car" \in last[u].had
        /\ "down_payment" \in last[u].ev
        /\ store[u].flow_name = EMI
        /\ store[u].step = "selecting_tenure"
        /\ store[u].data["down_payment"] = AMOUNT


---------------------------------------------------------------------------
(* C24: leaving selecting_car in the EMI flow                             *)

AtSelectingCar(st) ==
    /\ st.exists
    /\ st.flow_name = EMI
    /\ st.step = "selecting_car"

\* the replies the EMI flow itself handles: messages of an active flow
emi_replies(st, message) ==
    active_path(st, message) \cup no_shortcut(st, message)
        \cup change_shortcut(st, message)

CarChosen(r) ==
    /\ r.st.flow_name = EMI
    /\ r.st.step = "down_payment"
    /\ Truthy(r.st.data["selected_car"])

\* C24: whenever a user's record is at selecting_car of the EMI flow and no
\* message is pending, there is a reply after which the record has a selected
\* car and the step is down_payment.
C24_CanLeaveSelectingCar ==
    \A u \in Users :
        (AtSelectingCar(store[u]) /\ inbox[u] = None)
            => \E message \in Messages :
                   \E r \in emi_replies(store[u], message) : CarChosen(r)


---------------------------------------------------------------------------
(* C25: the registration number of the service flow                       *)

\* two letters, two digits, two letters, four digits (in either case)
WellFormedPlate(r) ==
    /\ Len(r) = 10
    /\ Capitals(Upper(r), 1, 2)
    /\ isdigit(SubSeq(r, 3, 4))
    /\ Capitals(Upper(r), 5, 2)
    /\ isdigit(SubSeq(r, 7, 10))

PastVehicleDetails == {"collecting_service_type", "collecting_customer_details"}

\* C25: in the service flow a stored registration number is always two
\* letters, two digits, two letters, four digits, and a record that has left
\* collecting_vehicle_details holds such a registration; a malformed one,
\* from the analysis or from the fallback, is neither stored nor advanced on.
C25_RegistrationWellFormed ==
    \A u \in Users :
        (store[u].exists /\ store[u].flow_name = SERVICE) =>
            /\ store[u].data["registration_number"] # None
                   => WellFormedPlate(store[u].data["registration_number"])
            /\ store[u].step \in PastVehicleDetails
                   => WellFormedPlate(store[u].data["registration_number"])


---------------------------------------------------------------------------
(* C26: calculate_car_valuation (car_valuation_flow.py, lines 140-238)    *)

\* CONDITION_MULTIPLIERS (lines 26-33), in tenths
CONDITION_MULTIPLIERS ==
    ("excellent" :> 10) @@ ("very good" :> 9) @@ ("good" :> 8) @@ ("average" :> 7)
        @@ ("fair" :> 6) @@ ("poor" :> 5)

\* CONDITION_MULTIPLIERS.get(condition.lower(), 0.7) (lines 209-210), in tenths
condition_mult(condition) ==
    IF Lower(condition) \in DOMAIN CONDITION_MULTIPLIERS
    THEN CONDITION_MULTIPLIERS[Lower(condition)] ELSE 7

\* lines 183-194
brand_base_prices ==
    ("Tata" :> 800000) @@ ("Hyundai" :> 900000) @@ ("Maruti" :> 700000)
        @@ ("Mahindra" :> 850000) @@ ("Honda" :> 1000000) @@ ("Toyota" :> 1100000)
        @@ ("Ford" :> 950000) @@ ("Renault" :> 800000) @@ ("Skoda" :> 1200000)
        @@ ("Nissan" :> 900000)

\* lines 150-195 and 214: the average price of the similar cars of the
\* database (db_price, 0 when there is none), else the estimate of the brand
base_price(brand, db_price) ==
    IF db_price # 0 THEN db_price
    ELSE IF brand \in DOMAIN brand_base_prices THEN brand_base_prices[brand]
    ELSE 800000

\* the depreciation without `max(0.2, ...)`
depreciation_factor_unfloored(age) ==
    IF age <= 5 THEN 100 - (age * 10) ELSE 50 - ((age - 5) * 5)

\* lines 201-206, in percent
depreciation_factor(age) ==
    IF age <= 5
    THEN IF 100 - (age * 10) < 20 THEN 20 ELSE 100 - (age * 10)
    ELSE IF 50 - ((age - 5) * 5) < 20 THEN 20 ELSE 50 - ((age - 5) * 5)

\* round(num / den) * 1000 (line 219); num / den exactly half way between two
\* integers goes either way, the float product being a little off the exact one
RoundThousands(num, den) ==
    IF 2 * (num % den) < den THEN {(num \div den) * 1000}
    ELSE IF 2 * (num % den) > den THEN {((num \div den) + 1) * 1000}
    ELSE {(num \div den) * 1000, ((num \div den) + 1) * 1000}

ValuationResult(base, age, condition, final) ==
    [base_price |-> base, depreciation_factor |-> depreciation_factor(age),
     condition_multiplier |-> condition_mult(condition), final_valuation |-> final,
     age_years |-> age]

\* lines 197-228: base * percent / 100 * tenths / 10, rounded to the nearest 1000
ValuationOf(base, age, condition) ==
    {ValuationResult(base, age, condition, final) :
        final \in RoundThousands(base * depreciation_factor(age) * condition_mult(condition),
                                 1000000)}

\* calculate_car_valuation(brand, model, year, fuel_type, condition); model and
\* fuel_type only select the cars db_price is averaged over
calculate_car_valuation(brand, db_price, year, condition) ==
    ValuationOf(base_price(brand, db_price), current_year - year, condition)

ValuationBrands == {"Honda", "Skoda", "Fiat"}

DbPrices == {0, 455500, 800600}

\* the years the flow lets through (lines 96-113 and 557-566)
ValidYears == 1990..current_year

Conditions == DOMAIN CONDITION_MULTIPLIERS

\* nothing but the function call happens
NoTraffic ==
    /\ store = [u \in OneUser |-> NoState]
    /\ inbox = [u \in Users |-> None]
    /\ last = [u \in Users |-> NoLast]
    /\ d_intent = NoIntentResult
    /\ d_message = ""
    /\ d_flow = None
    /\ d_step = None
    /\ d_result = None
    /\ d_pc = "idle"
    /\ llm = "flaky"
    /\ tasks = <<>>
    /\ bookings = 0

ValuationInit ==
    /\ NoTraffic
    /\ call \in [brand : ValuationBrands, db_price : DbPrices, year : ValidYears,
                 condition : Conditions]
    /\ result = {}

Valuate ==
    /\ result = {}
    /\ \E r \in calculate_car_valuation(call.brand, call.db_price, call.year,
                                        call.condition) : result' = {r}
    /\ UNCHANGED <<mainVars, detectVars, llm, call, taskVars>>

ValuationNext == Valuate

SpecValuation == ValuationInit /\ [][ValuationNext]_vars

\* C26 as stated: for every year in [1990, current_year] and each of the six
\* conditions, 0.2 * base_price <= final_valuation <= base_price.
C26_ValuationBounds ==
    \A r \in result :
        /\ r.base_price <= 5 * r.final_valuation
        /\ r.final_valuation <= r.base_price

\* C26 amended: the valuation is between 10 percent of the base price and the
\* base price, up to the rounding to the nearest 1000:
\* 0.1 * base_price - 500 <= final_valuation <= base_price + 500.
C26_ValuationBoundsTenth ==
    \A r \in result :
        /\ r.base_price <= 10 * (r.final_valuation + 500)
        /\ r.final_valuation <= r.base_price + 500

\* a poor car at the depreciation floor is valued at a tenth of its base price
C26_Witness ==
    \E r \in result :
        /\ call.condition = "poor"
        /\ r.depreciation_factor = 20
        /\ r.age_years > 11
        /\ 10 * r.final_valuation = r.base_price


---------------------------------------------------------------------------
(* C27: two messages of one user handled concurrently                     *)
(* Each webhook request is a coroutine of its own (main.py, lines 120-192);*)
(* a handler gives way at every await.  Of these the await of              *)
(* car_db.search_cars is modelled (browse_car_flow.py, lines 1199-1233 and *)
(* the like); the rest of a handler runs in one step, which leaves out     *)
(* interleavings but adds none.                                            *)

\* each coroutine handles one message
RaceTasks == 1..3

RaceMessages == {"show me cars", "honda", "5 lakh", "Sedan", "change", "yes", "menu"}

\* the frame of a coroutine: where it is, the record as it was when the search
\* was awaited, the list the search returned; `lost` observes that the record
\* had changed by the time the coroutine wrote
IdleTask == [pc |-> "idle", seen |-> NoState, found |-> None, lost |-> FALSE]

RaceInit ==
    /\ store = [u \in OneUser |-> NoState]
    /\ inbox = [u \in Users |-> None]
    /\ last = [u \in Users |-> NoLast]
    /\ d_intent = NoIntentResult
    /\ d_message = ""
    /\ d_flow = None
    /\ d_step = None
    /\ d_result = None
    /\ d_pc = "idle"
    /\ llm = "flaky"
    /\ call = {}
    /\ result = {}
    /\ tasks = [t \in RaceTasks |-> IdleTask]
    /\ bookings = 0

\* the runs of the handler that await the search once: the run in which the
\* search finds nothing ends with the record as it is at the await
AwaitsSearch(o) ==
    /\ "search" \in o.ev
    /\ o.reply = "no_match"
    /\ Cardinality({e \in o.ev : StartsWith(e, "search_cars(")}) = 1

\* the writes of a resumed coroutine that dropped them when the record is no
\* longer the one it searched for
search_returned_checked(st, frame) ==
    IF frame.found = "cars" /\ st = frame.seen
    THEN update_state_step(update_data(st, [cars |-> CAR_LIST]), "showing_cars")
    ELSE st

\* lines 1221-1224 (and 626-640, 835-850, 1100-1115): after the await,
\* update_data(user_id, cars=...) and update_state(user_id, step="showing_cars")
\* on the record the store holds now
search_returned(st, frame) ==
    IF frame.found = "cars"
    THEN update_state_step(update_data(st, [cars |-> CAR_LIST]), "showing_cars")
    ELSE st

\* a message handled without a search: the handler runs to its end
RaceHandle ==
    \E u \in Users, t \in RaceTasks, m \in RaceMessages :
        /\ tasks[t].pc = "idle"
        /\ \E o \in handle_browse_car_flow(store[u], m, NoIntentResult) :
              /\ "search" \notin o.ev
              /\ store' = [store EXCEPT ![u] = o.st]
        /\ tasks' = [tasks EXCEPT ![t] = [IdleTask EXCEPT !.pc = "done"]]
        /\ UNCHANGED <<inbox, last, detectVars, llm, callVars, bookings>>

\* a message whose handler stores the criteria and awaits the search
RaceSearch ==
    \E u \in Users, t \in RaceTasks, m \in RaceMessages :
        /\ tasks[t].pc = "idle"
        /\ \E o \in handle_browse_car_flow(store[u], m, NoIntentResult) :
              /\ AwaitsSearch(o)
              /\ store' = [store EXCEPT ![u] = o.st]
              /\ tasks' = [tasks EXCEPT ![t] = [IdleTask EXCEPT !.pc = "searching",
                                                                !.seen = o.st]]
        /\ UNCHANGED <<inbox, last, detectVars, llm, callVars, bookings>>

\* the search returns and the coroutine goes on
RaceResume ==
    \E u \in Users, t \in RaceTasks, found \in SearchResults :
        /\ tasks[t].pc = "searching"
        /\ tasks' = [tasks EXCEPT ![t] = [pc |-> "done", seen |-> tasks[t].seen,
                                           found |-> found,
                                           lost |-> /\ found = "cars"
                                                    /\ store[u] # tasks[t].seen]]
        /\ store' = [store EXCEPT ![u] = search_returned(store[u], tasks'[t])]
        /\ UNCHANGED <<inbox, last, detectVars, llm, callVars, bookings>>

RaceNext == RaceHandle \/ RaceSearch \/ RaceResume

SpecRace == RaceInit /\ [][RaceNext]_vars

Criteria(st) == <<st.data["brand"], st.data["budget"], st.data["car_type"]>>

\* C27: a coroutine that comes back from its search with cars writes the cars
\* and the step showing_cars into the record the store holds by then, without
\* looking at it: what another coroutine of the same user wrote to the step
\* and the criteria in between is overwritten or contradicted by a write
\* computed from the earlier state (the lost update the witness reaches).
C27_ResumeWritesBlindly ==
    [][\A u \in Users : \A t \in RaceTasks :
          (/\ tasks[t].pc = "searching"
           /\ tasks'[t].pc = "done"
           /\ tasks'[t].found = "cars")
              => /\ store'[u].exists
                 /\ store'[u].step = "showing_cars"
                 /\ store'[u].data["cars"] = CAR_LIST
                 /\ \A k \in DataKeys \ {"cars"} : store'[u].data[k] = store[u].data[k]]_vars

\* the lost update: the record is at showing_cars with the cars of a search
\* whose criteria are no longer the stored ones
C27_Witness ==
    \E u \in Users : \E t \in RaceTasks :
        /\ tasks[t].pc = "done"
        /\ tasks[t].lost
        /\ store[u].step = "showing_cars"
        /\ store[u].data["cars"] = CAR_LIST
        /\ Criteria(store[u]) # Criteria(tasks[t].seen)


---------------------------------------------------------------------------
(* C28: bookings made for one confirmation                                *)
(* The confirming message is handled by coroutines that give way at the    *)
(* await of car_db.create_test_drive_booking (browse_car_flow.py, lines    *)
(* 1963-1972); asyncio.wait_for (main.py, lines 298-310) cancels a handler *)
(* that takes too long, wherever it is.                                    *)

BookingTasks == 1..3

BookingMessages == {"yes", "no", "menu"}

\* a record the Browse-Car flow has brought to test_drive_confirm
ConfirmRecord ==
    [ConversationState(BROWSE, "test_drive_confirm",
        [brand |-> "Honda", budget |-> "None:500000", car_type |-> "Hatchback",
         cars |-> CAR_LIST, selected_car |-> CarAt(1), test_drive_phone |-> "phone10",
         test_drive_has_dl |-> "True", test_drive_location |-> "showroom",
         test_drive_name |-> "text", test_drive_date |-> "text",
         test_drive_time |-> "text"]) EXCEPT !.history = 1]

BookingInit ==
    /\ store = [u \in OneUser |-> ConfirmRecord]
    /\ inbox = [u \in Users |-> None]
    /\ last = [u \in Users |-> NoLast]
    /\ d_intent = NoIntentResult
    /\ d_message = ""
    /\ d_flow = None
    /\ d_step = None
    /\ d_result = None
    /\ d_pc = "idle"
    /\ llm = "flaky"
    /\ call = {}
    /\ result = {}
    /\ tasks = [t \in BookingTasks |-> "idle"]
    /\ bookings = 0

\* a message that does not reach create_test_drive_booking, or for which the
\* call raises before anything is inserted: the handler runs to its end
BookingHandle ==
    \E u \in Users, t \in BookingTasks, m \in BookingMessages :
        /\ tasks[t] = "idle"
        /\ \E o \in handle_browse_car_flow(store[u], m, NoIntentResult) :
              /\ "booked" \notin o.ev
              /\ store' = [store EXCEPT ![u] = o.st]
        /\ tasks' = [tasks EXCEPT ![t] = "done"]
        /\ UNCHANGED <<inbox, last, detectVars, llm, callVars, bookings>>

\* lines 1934-1972: the confirming message passes the checks and the handler
\* awaits create_test_drive_booking; nothing has been written
BookingCall ==
    \E u \in Users, t \in BookingTasks, m \in BookingMessages :
        /\ tasks[t] = "idle"
        /\ \E o \in handle_browse_car_flow(store[u], m, NoIntentResult) :
              "booked" \in o.ev
        /\ tasks' = [tasks EXCEPT ![t] = "booking"]
        /\ UNCHANGED <<mainVars, detectVars, llm, callVars, bookings>>

\* database.py, lines 194-209: INSERT INTO test_drive_bookings
BookingInsert ==
    \E t \in BookingTasks :
        /\ tasks[t] = "booking"
        /\ bookings' = bookings + 1
        /\ tasks' = [tasks EXCEPT ![t] = "inserted"]
        /\ UNCHANGED <<mainVars, detectVars, llm, callVars>>

\* lines 1974-1975: the call returns and the handler clears the record
BookingReturn ==
    \E u \in Users, t \in BookingTasks :
        /\ tasks[t] = "inserted"
        /\ store' = [store EXCEPT ![u] = clear_state(store[u])]
        /\ tasks' = [tasks EXCEPT ![t] = "done"]
        /\ UNCHANGED <<inbox, last, detectVars, llm, callVars, bookings>>

\* main.py, lines 298-310: the handler is cancelled at its await and the user
\* is told to try again; the record is as the handler left it
BookingTimeout ==
    \E t \in BookingTasks :
        /\ tasks[t] \in {"booking", "inserted"}
        /\ tasks' = [tasks EXCEPT ![t] = "timed_out"]
        /\ UNCHANGED <<mainVars, detectVars, llm, callVars, bookings>>

BookingNext ==
    \/ BookingHandle
    \/ BookingCall
    \/ BookingInsert
    \/ BookingReturn
    \/ BookingTimeout

SpecBooking == BookingInit /\ [][BookingNext]_vars

\* C28: for the one completed confirmation of the user (the record at
\* test_drive_confirm) at most one booking is created, however often and
\* however concurrently the confirming message is handled.
C28_AtMostOneBooking == bookings <= 1


---------------------------------------------------------------------------
(* C29: the records of different users                                    *)

TwoUsers == {"u1", "u2"}

PartitionMessages == {"show me cars", "book service", "change", "no", "menu"}

\* two users, the field extraction failing throughout (which keeps the records
\* of one user few enough to pair them with those of the other)
PartitionInit ==
    /\ store = [u \in TwoUsers |-> NoState]
    /\ inbox = [u \in Users |-> None]
    /\ last = [u \in Users |-> NoLast]
    /\ d_intent = NoIntentResult
    /\ d_message = ""
    /\ d_flow = None
    /\ d_step = None
    /\ d_result = None
    /\ d_pc = "idle"
    /\ llm = "down"
    /\ call = {}
    /\ result = {}
    /\ tasks = <<>>
    /\ bookings = 0

\* the webhook hands over a text of either user, also while a text of the
\* other user is being handled
PartitionReceive ==
    \E u \in Users, m \in PartitionMessages :
        /\ inbox[u] = None
        /\ inbox' = [inbox EXCEPT ![u] = m]
        /\ last' = [last EXCEPT ![u] = NoLast]
        /\ UNCHANGED <<store, detectVars, llm, callVars, taskVars>>

PartitionNext ==
    \/ PartitionReceive
    \/ ProcessChangeShortcut
    \/ ProcessNoShortcut
    \/ ProcessIntentFailure
    \/ ProcessClarification
    \/ ProcessSwitch
    \/ ProcessActiveFlow
    \/ ProcessIdleRoute
    \/ ProcessGeneric

SpecPartition == PartitionInit /\ [][PartitionNext]_vars

---------------------------------------------------------------------------
(* C30: ConversationManager.update_data (conversation_state.py, 78-86)    *)

UpdateKeys == {"brand", "selected_car"}

UpdateValues == {None, "Toyota", CarAt(1)}

\* the keyword arguments of a call: some keys, each with a value or None
Updates == UNION {[S -> UpdateValues] : S \in SUBSET UpdateKeys}

\* the entry of the user before the call: none, or a record of a flow
StoredRecords ==
    {NoState,
     ConversationState(BROWSE, "collecting_criteria", <<>>),
     ConversationState(BROWSE, "collecting_criteria", [brand |-> "Honda"]),
     [ConversationState(BROWSE, "car_selected",
          [brand |-> "Honda", budget |-> "None:500000", car_type |-> "Hatchback",
           cars |-> CAR_LIST, selected_car |-> CarAt(1)]) EXCEPT !.history = 1],
     ConversationState(EMI, "down_payment", [selected_car |-> CarAt(1)]),
     [ConversationState(EMI, "selecting_car", <<>>) EXCEPT !.history = 1],
     ConversationState(SERVICE, "showing_services", <<>>)}

UpdateInit ==
    /\ NoTraffic
    /\ call \in [st : StoredRecords, upd : Updates]
    /\ result = {}

UpdateData ==
    /\ result = {}
    /\ result' = {update_data(call.st, call.upd)}
    /\ UNCHANGED <<mainVars, detectVars, llm, call, taskVars>>

UpdateNext == UpdateData

SpecUpdate == UpdateInit /\ [][UpdateNext]_vars

\* what the record held before the call, a missing record holding nothing
Before(st) == IF st.exists THEN st ELSE NoState

\* C30: update_data sets every named key to the given value, None included;
\* the keys not named, flow_name, step and the history are as before; with no
\* record before, the new record has flow_name None and only the named keys.
C30_UpdateDataOverwrites ==
    \A r \in result :
        /\ r.exists
        /\ \A k \in DOMAIN call.upd : r.data[k] = call.upd[k]
        /\ \A k \in DataKeys \ DOMAIN call.upd : r.data[k] = Before(call.st).data[k]
        /\ r.flow_name = Before(call.st).flow_name
        /\ r.step = Before(call.st).step
        /\ r.history = Before(call.st).history

\* a stored value has been overwritten with None
C30_Witness ==
    \E r \in result : \E k \in DOMAIN call.upd :
        /\ call.st.exists
        /\ call.st.data[k] # None
        /\ call.upd[k] = None
        /\ r.data[k] = None
        /\ r.flow_name = call.st.flow_name

---------------------------------------------------------------------------
(* C31: ConversationManager.add_message_to_history                         *)
(* (conversation_state.py, lines 88-111), with the history as the list of  *)
(* exchanges it is                                                         *)

\* the calls of a run
MaxAppends == 6

Exchanges == {[user |-> "hi", bot |-> "hello"], [user |-> "yes", bot |-> "ok"]}

\* the bound given to the calls of a run (the default is max_history)
HistoryBounds == {0, 1, 2, 3, max_history}

\* lst[start:] of a Python list
SliceFrom(lst, start) ==
    IF start < 0
    THEN SubSeq(lst, (IF Len(lst) + start < 0 THEN 0 ELSE Len(lst) + start) + 1, Len(lst))
    ELSE SubSeq(lst, (IF start > Len(lst) THEN Len(lst) ELSE start) + 1, Len(lst))

\* lines 102-109: append, then conversation_history[-max_history:] when longer
\* than max_history (-0 is 0: the slice from 0 is the whole list)
conversation_history(history, exchange, bound) ==
    IF Len(Append(history, exchange)) > bound
    THEN SliceFrom(Append(history, exchange), 0 - bound)
    ELSE Append(history, exchange)

\* add_message_to_history(user_id, user_message, bot_response, max_history) on
\* the user's entry `st`, whose history field holds the list here
add_message_to_history_list(st, user_message, bot_response, bound) ==
    IF st.exists
    THEN [st EXCEPT !.history = conversation_history(st.history,
                        [user |-> user_message, bot |-> bot_response], bound)]
    ELSE [NoState EXCEPT !.exists = TRUE,
                         !.history = conversation_history(<<>>,
                        [user |-> user_message, bot |-> bot_response], bound)]

\* the entry of the user before the first call: none, or a record of a flow
HistoryRecords ==
    {[NoState EXCEPT !.history = <<>>],
     [ConversationState(BROWSE, "collecting_criteria", [brand |-> "Honda"])
         EXCEPT !.history = <<>>],
     [ConversationState(EMI, "down_payment", [selected_car |-> CarAt(1)])
         EXCEPT !.history = <<>>]}

\* call: the bound, the entry before the first call and the exchanges given so
\* far, in the order of the calls; result: the entry now
HistoryInit ==
    /\ NoTraffic
    /\ call \in [max_history : HistoryBounds, st : HistoryRecords, arrived : {<<>>}]
    /\ result = {call.st}

AppendHistory ==
    /\ Len(call.arrived) < MaxAppends
    /\ \E x \in Exchanges :
          /\ call' = [call EXCEPT !.arrived = Append(@, x)]
          /\ result' = {add_message_to_history_list(r, x.user, x.bot,
                                                    call.max_history) : r \in result}
    /\ UNCHANGED <<mainVars, detectVars, llm, taskVars>>

HistoryNext == AppendHistory

SpecHistory == HistoryInit /\ [][HistoryNext]_vars

\* the most recent `bound` exchanges of those given, in the order given
MostRecent(arrived, bound) ==
    IF Len(arrived) <= bound THEN arrived
    ELSE SubSeq(arrived, Len(arrived) - bound + 1, Len(arrived))

\* the rest of the record is as it was before the calls
RestKept(r) ==
    /\ r.flow_name = call.st.flow_name
    /\ r.step = call.st.step
    /\ r.data = call.st.data

\* C31: after any sequence of add_message_to_history calls with bound max_len
\* >= 0 the history holds at most max_len exchanges, the most recent ones in
\* arrival order with the newest last, and flow_name, step and data are as
\* they were.
C31_HistoryBoundedOrdered ==
    \A r \in result :
        /\ Len(r.history) <= call.max_history
        /\ r.history = MostRecent(call.arrived, call.max_history)
        /\ RestKept(r)

\* the same for the bounds from 1 up (the default 5 among them)
C31_HistoryBoundedFromOne ==
    \A r \in result :
        call.max_history >= 1 =>
            /\ Len(r.history) <= call.max_history
            /\ r.history = MostRecent(call.arrived, call.max_history)
            /\ RestKept(r)

\* with the bound 0 the history keeps every exchange
C31_UnboundedAtZero ==
    \E r \in result :
        /\ call.max_history = 0
        /\ Len(call.arrived) = MaxAppends
        /\ r.history = call.arrived

\* with the default bound the oldest exchange has been dropped
C31_DefaultTruncates ==
    \E r \in result :
        /\ call.max_history = max_history
        /\ Len(call.arrived) = max_history + 1
        /\ r.history = Tail(call.arrived)

---------------------------------------------------------------------------
(* C32: when a test-drive booking is made                                 *)

AFFIRMATIVE == {"yes", "y", "confirm", "ok", "okay", "sure", "correct", "proceed"}

\* this step handles a message of user u and creates a test-drive booking
TestDriveBooked(u) ==
    Handled(u) /\ "booked" \in last'[u].ev /\ last'[u].reply = "test_drive_booked"

AtTestDriveConfirm(st) == st.flow_name = BROWSE /\ st.step = "test_drive_confirm"

\* date, time, name, phone, a license answer of yes, a location, and an address
\* for a home pickup
TestDriveComplete(st) ==
    /\ st.data["test_drive_date"] # None
    /\ st.data["test_drive_time"] # None
    /\ st.data["test_drive_name"] # None
    /\ st.data["test_drive_phone"] # None
    /\ st.data["test_drive_has_dl"] = "True"
    /\ st.data["test_drive_location"] # None
    /\ (st.data["test_drive_location"] = "home" => st.data["test_drive_address"] # None)

\* C32: a test-drive booking is created only from test_drive_confirm, on an
\* affirmative reply, with every required field collected; and the step
\* test_drive_confirm is never reached with a required field absent.
C32_BookingOnlyWhenComplete ==
    [][\A u \in Users : Handled(u) =>
          /\ TestDriveBooked(u) =>
                /\ AtTestDriveConfirm(store[u])
                /\ Strip(Lower(inbox[u])) \in AFFIRMATIVE
                /\ TestDriveComplete(store[u])
          /\ AtTestDriveConfirm(store'[u]) => TestDriveComplete(store'[u])]_vars

\* the parts of C32 taken one by one: the booking is made from
\* test_drive_confirm on an affirmative reply
C32_BookingFromConfirm ==
    [][\A u \in Users : TestDriveBooked(u) =>
          /\ AtTestDriveConfirm(store[u])
          /\ Strip(Lower(inbox[u])) \in AFFIRMATIVE]_vars

\* no booking for a user whose license answer is no or missing
C32_BookingNeedsLicense ==
    [][\A u \in Users : TestDriveBooked(u) =>
          store[u].data["test_drive_has_dl"] = "True"]_vars

\* a booking has been made for a user who was never asked for a date
C32_BookedWithoutDate ==
    \E u \in Users :
        /\ "booked" \in last[u].ev
        /\ last[u].reply = "test_drive_booked"
        /\ last[u].from = BROWSE
        /\ "test_drive_date" \notin last[u].had
        /\ "test_drive_time" \notin last[u].had

\* the confirmation of a home pickup is pending and no address is recorded
C32_ConfirmWithoutAddress ==
    \E u \in Users :
        /\ AtTestDriveConfirm(store[u])
        /\ store[u].data["test_drive_location"] = "home"
        /\ store[u].data["test_drive_address"] = None
        /\ last[u].reply = "confirm_details"

---------------------------------------------------------------------------
(* C33: the record at showing_cars                                        *)

AtShowingCars(st) == st.flow_name = BROWSE /\ st.step = "showing_cars"

\* the first half of C33: a record in Browse-Car at showing_cars has brand,
\* budget and car_type and a non-empty car list
C33_ShowingCarsInvariant ==
    \A u \in Users :
        AtShowingCars(store[u]) =>
            /\ store[u].data["brand"] # None
            /\ store[u].data["budget"] # None
            /\ store[u].data["car_type"] # None
            /\ store[u].data["cars"] = CAR_LIST
            /\ NumCars >= 1

\* C33: whenever a record is in Browse-Car at showing_cars (between messages),
\* brand, budget and car_type are all non-null and the stored car list is
\* non-empty; and a message whose search returned nothing is answered with the
\* no-match reply, the step left at collecting_criteria.
C33_ShowingCarsHasCriteria ==
    \A u \in Users :
        /\ AtShowingCars(store[u]) =>
              /\ store[u].data["brand"] # None
              /\ store[u].data["budget"] # None
              /\ store[u].data["car_type"] # None
              /\ store[u].data["cars"] = CAR_LIST
        /\ "no_cars" \in last[u].ev =>
              /\ last[u].reply = "no_match"
              /\ store[u].flow_name = BROWSE
              /\ store[u].step = "collecting_criteria"

\* the no-match reply leaves the record in Browse-Car at collecting_criteria
C33_NoMatchStays ==
    [][\A u \in Users : Handled(u) /\ last'[u].reply = "no_match" =>
          /\ store'[u].flow_name = BROWSE
          /\ store'[u].step = "collecting_criteria"]_vars

\* a search has just found cars for the stored criteria and they are shown
C33_CarsShown ==
    \E u \in Users :
        /\ AtShowingCars(store[u])
        /\ last[u].reply = "car_list"
        /\ "search" \in last[u].ev
        /\ AllCriteria(store[u])
        /\ store[u].data["cars"] = CAR_LIST

\* a search has found nothing: the no-match reply, the step as it was
C33_NoMatchReached ==
    \E u \in Users :
        /\ last[u].reply = "no_match"
        /\ "no_cars" \in last[u].ev
        /\ store[u].step = "collecting_criteria"
        /\ AllCriteria(store[u])

\* the first message of a user gave all three criteria to the local
\* extraction, the search found nothing, and the reply is a clarification
\* question about values the user is asked to confirm
C33_EmptyUnreported ==
    \E u \in Users :
        /\ {"init", "no_cars"} \subseteq last[u].ev
        /\ last[u].reply = "clarification_question"
        /\ store[u].step = "collecting_criteria"
        /\ AllCriteria(store[u])

---------------------------------------------------------------------------
(* C34: the choice of a car at showing_cars                               *)

\* the cars of the list a record holds
ShownCars(st) == IF st.data["cars"] = CAR_LIST THEN {CarAt(n) : n \in 1..NumCars} ELSE {}

\* the number of cars shown
Shown(st) == IF st.data["cars"] = CAR_LIST THEN NumCars ELSE 0

\* the user of this step is at showing_cars, the message is a number and the
\* dispatcher hands it to the handler of the flow
NumericReply(u) ==
    /\ Handled(u)
    /\ AtShowingCars(store[u])
    /\ isdigit(Strip(Lower(inbox[u])))
    /\ last'[u].path = "active"

\* C34: at showing_cars with N cars shown, a numeric reply k with 1 <= k <= N
\* stores the k-th car as selected_car and moves the step to car_selected; a
\* numeric reply outside 1..N leaves the step at showing_cars and selected_car
\* unchanged; and whenever the step is car_selected, selected_car is one of the
\* cars of the shown list.
C34_NumericReplySelects ==
    [][\A u \in Users :
          /\ NumericReply(u) =>
                IF /\ 1 <= ToInt(Strip(Lower(inbox[u])))
                   /\ ToInt(Strip(Lower(inbox[u]))) <= Shown(store[u])
                THEN /\ store'[u].flow_name = BROWSE
                     /\ store'[u].step = "car_selected"
                     /\ store'[u].data["selected_car"] =
                            CarAt(ToInt(Strip(Lower(inbox[u]))))
                ELSE /\ store'[u].flow_name = BROWSE
                     /\ store'[u].step = "showing_cars"
                     /\ store'[u].data["selected_car"] = store[u].data["selected_car"]
          /\ (store'[u].flow_name = BROWSE /\ store'[u].step = "car_selected")
                => store'[u].data["selected_car"] \in ShownCars(store'[u])]_vars

\* the last part on its own
C34_SelectedFromShown ==
    \A u \in Users :
        (store[u].flow_name = BROWSE /\ store[u].step = "car_selected")
            => store[u].data["selected_car"] \in ShownCars(store[u])


\* what holds: the same with the numbers outside 1..10 set apart, which the
\* handler takes for a change of criteria when the analysis says so
C34_NumericReplySelectsUpToTen ==
    [][\A u \in Users :
          (NumericReply(u) /\ ToInt(Strip(Lower(inbox[u]))) \in 1..10) =>
                IF ToInt(Strip(Lower(inbox[u]))) <= Shown(store[u])
                THEN /\ store'[u].flow_name = BROWSE
                     /\ store'[u].step = "car_selected"
                     /\ store'[u].data["selected_car"] =
                            CarAt(ToInt(Strip(Lower(inbox[u]))))
                ELSE /\ store'[u].flow_name = BROWSE
                     /\ store'[u].step = "showing_cars"
                     /\ store'[u].data["selected_car"] = store[u].data["selected_car"]]_vars

\* a car of the list has been chosen by its number
C34_CarChosen ==
    \E u \in Users :
        /\ last[u].path = "active"
        /\ "select" \in last[u].ev
        /\ store[u].step = "car_selected"
        /\ store[u].data["selected_car"] = CarAt(1)

---------------------------------------------------------------------------
(* C35: the hand-off from Browse-Car to EMI                               *)

\* this step handles a message of user u at car_selected by which the user
\* chooses the EMI option (_transition_to_emi_flow runs)
ChoosesEMI(u) ==
    /\ Handled(u)
    /\ store[u].flow_name = BROWSE
    /\ store[u].step = "car_selected"
    /\ "handoff" \in last'[u].ev

\* the record holds the car and nothing else
OnlySelectedCar(st, car) ==
    /\ st.data["selected_car"] = car
    /\ \A k \in DataKeys \ {"selected_car"} : st.data[k] = None

\* C35: when the user at car_selected chooses the EMI option, after the message
\* is fully handled the record has flow_name emi, step down_payment and
\* selected_car equal to the car selected in Browse-Car, with no other
\* Browse-Car field carried over.
C35_HandOffToEMI ==
    [][\A u \in Users : ChoosesEMI(u) =>
          /\ store'[u].flow_name = EMI
          /\ store'[u].step = "down_payment"
          /\ OnlySelectedCar(store'[u], store[u].data["selected_car"])]_vars


\* what holds after the hand-off: the record is an EMI record that carries no
\* Browse-Car criteria, car list or test-drive field; the EMI handler has
\* already been run on the same text
C35_HandOffReachesEMI ==
    [][\A u \in Users : ChoosesEMI(u) =>
          /\ store'[u].flow_name = EMI
          /\ Invoked(EMI) \in last'[u].ev
          /\ store'[u].step \in {"down_payment", "selecting_tenure", "selecting_car"}
          /\ store'[u].data["selected_car"] \in {store[u].data["selected_car"], None}
          /\ \A k \in DataKeys \ {"selected_car", "down_payment"} :
                store'[u].data[k] = None]_vars

\* the hand-off as the claim describes it: the EMI record at down_payment with
\* the car chosen in Browse-Car
C35_HandedOff ==
    \E u \in Users :
        /\ "handoff" \in last[u].ev
        /\ last[u].from = BROWSE
        /\ store[u].flow_name = EMI
        /\ store[u].step = "down_payment"
        /\ OnlySelectedCar(store[u], CarAt(1))

\* the hand-off after which the car is gone: the text that chose the EMI option
\* was taken by the EMI handler for a change request
C35_HandOffDropsCar ==
    \E u \in Users :
        /\ {"handoff", "change"} \subseteq last[u].ev
        /\ last[u].from = BROWSE
        /\ store[u].flow_name = EMI
        /\ store[u].step = "selecting_car"
        /\ store[u].data["selected_car"] = None

\* the hand-off after which a down payment is recorded that the user was never
\* asked for
C35_HandOffTakesDownPayment ==
    \E u \in Users :
        /\ {"handoff", "down_payment"} \subseteq last[u].ev
        /\ last[u].from = BROWSE
        /\ store[u].flow_name = EMI
        /\ store[u].step = "selecting_tenure"
        /\ store[u].data["down_payment"] # None

---------------------------------------------------------------------------
(* C36: when a service booking is made                                    *)

\* this step handles a message of user u and creates a service booking
ServiceBooked(u) ==
    Handled(u) /\ "booked" \in last'[u].ev /\ last'[u].reply = "service_booking_confirmed"

\* the record holds no flow, no step and no data (the user has no record, or a
\* fresh one that holds nothing but the exchange in its history)
NoFlowRecord(st) == st.flow_name = None /\ st.step = None /\ st.data = EmptyData

\* C36: a service booking is created only at collecting_customer_details and
\* only with make, model, year, registration number, service type, customer
\* name and phone number all in the record; the vehicle details and the
\* service type were there before the message, name and phone at the latest
\* with it; on creation the user's flow record is removed.
C36_ServiceBookingComplete ==
    [][\A u \in Users : ServiceBooked(u) =>
          /\ store[u].flow_name = SERVICE
          /\ store[u].step = "collecting_customer_details"
          /\ \A k \in VehicleFields \cup {"service_type"} : store[u].data[k] # None
          /\ BookedWith(ConversationState(SERVICE, "collecting_customer_details",
                                          [k \in BookingFields |-> TEXT]))
                \subseteq last'[u].ev
          /\ NoFlowRecord(store'[u])]_vars

\* C36 with "removed from the store" read as: the user has no entry at all
\* once the message is handled
C36_ServiceBookingNoEntry ==
    [][\A u \in Users : ServiceBooked(u) => ~store'[u].exists]_vars

\* a service booking has been made from a record with all its fields
C36_Witness ==
    \E u \in Users :
        /\ last[u].reply = "service_booking_confirmed"
        /\ last[u].from = SERVICE
        /\ (VehicleFields \cup {"service_type"}) \subseteq last[u].had
        /\ {"booked", "with:customer_name", "with:phone_number", "with:model"}
              \subseteq last[u].ev
        /\ NoFlowRecord(store[u])


\* ---------------------------------------------------------------------------
\* The brand reference list cache (browse_car_flow.py 29-43, 58-61)
\* ---------------------------------------------------------------------------

\* coroutines that may be inside get_brands_from_db at the same time (the
\* cache is one module-level global shared by every user's message)
Callers == {"k1", "k2", "k3"}

\* what SELECT DISTINCT brand may return at different moments
BrandLists == {<<>>, <<"Honda">>, <<"Honda", "Toyota">>}

\* database.py 76-86: get_available_brands returns a list, <<"rows", list>>,
\* or raises
Raised == <<"raise", <<>>>>
FetchOutcomes == {<<"rows", l>> : l \in BrandLists} \cup {Raised}

\* _brands_cache is None (line 29, line 61), or holds a list
Unset == <<>>
Holding(list) == <<list>>
IsSet(cache) == cache # Unset

\* browse_car_flow.py 43: `return _brands_cache or []`
OrEmpty(cache) == IF cache = Unset \/ cache[1] = <<>> THEN <<>> ELSE cache[1]

\* browse_car_flow.py 38-42: the assignment after the await; a raised
\* exception is cached as the empty list
Fetched(outcome) == Holding(IF outcome[1] = "rows" THEN outcome[2] ELSE <<>>)

\* `call` is <<car_db, _brands_cache, where each coroutine stands, fresh>>:
\* car_db says whether a database is configured (database.py 325); fresh says
\* that clear_brands_cache ran and no call has started since
car_db == call[1]
brands_cache == call[2]
Standing(c) == call[3][c]
Fresh == call[4]

\* `result` is what the last call returned: <<caller, value, queried>>
NoReturn == <<None, <<>>, FALSE>>
Returned(c, value, queried) == <<c, value, queried>>

CacheInit ==
    /\ NoTraffic
    /\ call \in {<<db, Unset, [c \in Callers |-> "idle"], FALSE>> : db \in BOOLEAN}
    /\ result = NoReturn

\* the test at line 37 and, when it passes, the query sent at line 39; when
\* it does not pass the call returns at line 43 at once
get_brands_from_db(c) ==
    /\ Standing(c) = "idle"
    /\ IF brands_cache = Unset /\ car_db
       THEN /\ call' = [call EXCEPT ![3][c] = "fetching", ![4] = FALSE]
            /\ UNCHANGED result
       ELSE /\ call' = [call EXCEPT ![4] = FALSE]
            /\ result' = Returned(c, OrEmpty(brands_cache), FALSE)
    /\ UNCHANGED <<mainVars, detectVars, llm, taskVars>>

\* the awaited query answers (or raises): lines 39-43
FetchReturns(c) ==
    /\ Standing(c) = "fetching"
    /\ \E outcome \in FetchOutcomes :
          /\ call' = [call EXCEPT ![3][c] = "idle", ![2] = Fetched(outcome)]
          /\ result' = Returned(c, OrEmpty(Fetched(outcome)), TRUE)
    /\ UNCHANGED <<mainVars, detectVars, llm, taskVars>>

\* lines 58-61
clear_brands_cache ==
    /\ call' = [call EXCEPT ![2] = Unset, ![4] = TRUE]
    /\ UNCHANGED <<result, mainVars, detectVars, llm, taskVars>>

CacheNext ==
    \/ \E c \in Callers : get_brands_from_db(c)
    \/ \E c \in Callers : FetchReturns(c)
    \/ clear_brands_cache

SpecCache == CacheInit /\ [][CacheNext]_vars

\* the step sends the query of line 39
Queries(c) == Standing(c) = "idle" /\ call'[3][c] = "fetching"

\* the step returns the cached list as it stood, without a query
ReturnsCached(c) ==
    /\ ~Queries(c)
    /\ result' = Returned(c, brands_cache[1], FALSE)

\* C37: with a database configured, a call queries the database only while
\* the cache is unset, a call made while it is set returns the cached value
\* without a query, and the first call after clear_brands_cache queries the
\* database again.
C37_CacheUntilCleared ==
    [][\A c \in Callers :
          get_brands_from_db(c) /\ car_db =>
             /\ Queries(c) => brands_cache = Unset
             /\ IsSet(brands_cache) => ReturnsCached(c)
             /\ Fresh => Queries(c)]_vars

\* C37, the part that holds: every fetch, failed ones included, sets the
\* cache; a call made while it is set returns it without a query; only
\* clear_brands_cache unsets it.
C37_CachedWhileSet ==
    [][/\ \A c \in Callers :
            /\ FetchReturns(c) => IsSet(call'[2])
            /\ get_brands_from_db(c) =>
                  /\ Queries(c) => brands_cache = Unset
                  /\ IsSet(brands_cache) => ReturnsCached(c)
       /\ IsSet(brands_cache) /\ call'[2] = Unset => clear_brands_cache]_vars

\* C37: a fetch that was in flight when clear_brands_cache ran has filled the
\* cache again before any later call started
C37_StaleAfterClear ==
    /\ car_db
    /\ Fresh
    /\ IsSet(brands_cache)
    /\ \A c \in Callers : Standing(c) = "idle"

\* C37: a failed fetch is cached as the empty list and the next call returned
\* it without a query
C37_FailureCached ==
    /\ brands_cache = Fetched(Raised)
    /\ result[1] # None
    /\ ~result[3]
    /\ result[2] = <<>>

\* C37: no database is configured and a call returned without a query, the
\* cache still unset
C37_NoDatabaseNoQuery ==
    /\ ~car_db
    /\ result[1] # None
    /\ brands_cache = Unset

\* C37: two queries are in flight at once
C37_TwoQueriesInFlight ==
    \E c, k \in Callers : c # k /\ Standing(c) = "fetching" /\ Standing(k) = "fetching"

\* ---------------------------------------------------------------------------
\* The confirmation step of the test drive (browse_car_flow.py 1934-2023)
\* ---------------------------------------------------------------------------

\* flow, step and collected data are what they were
RecordKept(u) ==
    /\ store'[u].flow_name = store[u].flow_name
    /\ store'[u].step = store[u].step
    /\ store'[u].data = store[u].data

\* the messages that are neither affirmative nor an exit request
DecliningMessages ==
    {m \in Messages : Strip(Lower(m)) \notin AFFIRMATIVE /\ ~is_exit_request(m)}

\* such a message is handled while the user stands at test_drive_confirm
DeclinesConfirm(u) ==
    /\ Handled(u)
    /\ AtTestDriveConfirm(store[u])
    /\ inbox[u] \in DecliningMessages

\* C39: at test_drive_confirm a reply that is neither affirmative nor an exit
\* request leaves the record unchanged: same step, same collected fields, no
\* booking.
C39_ConfirmKeepsRecord ==
    [][\A u \in Users :
          DeclinesConfirm(u) =>
             RecordKept(u) /\ "booked" \notin last'[u].ev]_vars

\* the message is answered by another flow: the router named one (main.py
\* 637-727) or the handler's own flow-switch detection did (lines 527-543)
SwitchesFlow(u) ==
    last'[u].path = "switch" \/ "switch_marker" \in last'[u].ev

\* C39, with flow switches set apart: at test_drive_confirm a reply that is
\* neither affirmative nor an exit request, and that does not switch the user
\* to another flow, leaves the record unchanged: same flow, same step, same
\* collected fields, no booking.
C39_ConfirmKeepsRecordUnlessSwitch ==
    [][\A u \in Users :
          DeclinesConfirm(u) /\ ~SwitchesFlow(u) =>
             RecordKept(u) /\ "booked" \notin last'[u].ev]_vars

\* C39: the user was asked again to confirm, or shown the change menu, and
\* still stands at test_drive_confirm
C39_Witness ==
    \E u \in Users :
       /\ AtTestDriveConfirm(store[u])
       /\ last[u].reply \in {"what_to_change", "confirm_prompt"}
       /\ last[u].path \in HandlerPaths

\* C39: the step was left by a flow switch
C39_LeftBySwitch ==
    \E u \in Users :
       /\ last[u].from = BROWSE
       /\ last[u].path = "switch"
       /\ "test_drive_name" \in last[u].had
       /\ store[u].flow_name \notin {None, BROWSE}


\* ---------------------------------------------------------------------------
\* process_text_message as a control-flow machine (main.py 408-961): every
\* collaborator call returns any value or raises any exception, every send
\* is delivered, fails in transport, or is skipped for want of credentials
\* ---------------------------------------------------------------------------

\* the flows a user can be in when the message arrives (a sample of VALID_FLOWS)
EntryFlows == {None, BROWSE, EMI}

\* the message: one of the shortcut words of lines 420 and 454, or other text
EntryTexts == {"change", "no", "hello"}

\* what a handler, or generate_response, hands back: text, None or "", a
\* flow-switch marker, or an object that is not a string
Replies == {"text", "empty", "marker", "not_text"}

\* the exception classes the except clauses tell apart (lines 629, 914, 931,
\* 940, 949)
ErrorKinds == {"IntentExtractionError", "ValueError", "FlowRoutingError",
               "ResponseGenerationError", "Exception"}

\* route_to_flow's target_flow: a flow, nothing, or a name that is no flow
RouteTargets == {None, BROWSE, EMI, "finance"}

\* the places where send_whatsapp_message is called
InnerSites == {"switch", "active", "idle"}
HandlerSites == {"shortcut"} \cup InnerSites

\* the replies MaxReplies counts up to
MaxReplies == 3

\* the three `except` clauses of the outer try (lines 931-961)
Outer(kind) ==
    CASE kind = "IntentExtractionError" -> "intent_fallback_send"
      [] kind = "ValueError" -> "value_fallback_send"
      [] OTHER -> "last_resort_send"

\* lines 836-892: Step 6 and what follows it
Step6(c) ==
    IF c.current_flow = None /\ c.routing_target \in VALID_FLOWS
    THEN "idle_handler" ELSE "generic"

\* where an exception raised at a site is caught, as the places the run
\* may go on from
\*   inner try blocks (lines 661, 754, 850): printed, and the run falls
\*     through; after a switch Step 5 reads the record again (line 731), and
\*     finds a flow if the new handler had stored one before the exception
\*   the outer try: by class
\*   inside the first two outer except clauses: nowhere
\*   inside the last one (lines 958-961): swallowed
Caught(c, site, kind) ==
    CASE site = "switch" -> {Step6(c), "active_handler"}
      [] site = "active" -> {Step6(c)}
      [] site = "idle" -> {"generic"}
      [] site \in {"intent_fallback", "value_fallback"} -> {"raised"}
      [] site = "last_resort" -> {"returned"}
      [] OTHER -> {Outer(kind)}

\* the statement after a successful send: `return` (lines 428, 608, 660, 753,
\* 849, ...) or the end of the function (lines 912, 929, 938, 947, 959)
OnSent_falling(site) == IF site = "switch" THEN "generic" ELSE "returned"

OnSent(site) == "returned"

ReplyInit ==
    /\ NoTraffic
    /\ call \in [pc : {"start"}, current_flow : EntryFlows, text : EntryTexts,
                 awaiting : BOOLEAN, configured : BOOLEAN,
                 routing_target : {None}, reply : {None}, sent : {0},
                 failed : {FALSE}, caught : {FALSE}]
    /\ result = {}

Goes(c) == /\ call' = c
           /\ UNCHANGED <<result, mainVars, detectVars, llm, taskVars>>

\* the fallback texts of lines 933-959 are literals
FallbackSends == {"intent_fallback_send", "value_fallback_send", "last_resort_send"}

At(c, pc) ==
    [c EXCEPT !.pc = pc, !.reply = IF pc \in FallbackSends THEN "text" ELSE @]

\* a collaborator raised
Raising(c) == [c EXCEPT !.caught = TRUE]

\* lines 417-507: the shortcut words go to the handler of the active flow
Enter ==
    /\ call.pc = "start"
    /\ Goes(At(call, IF call.current_flow # None /\ call.text \in {"change", "no"}
                     THEN "shortcut_handler" ELSE "extract_intent"))

\* call_flow_handler_with_timeout (lines 281-313) at one of the four places,
\* and for the inner places handle_flow_switch_marker on what came back
\* (lines 315-382: it raises on a reply that is not a string, and otherwise
\* returns None or a reply of the other flow's handler)
CallHandler(site) ==
    /\ call.pc = site \o "_handler"
    /\ \/ \E r \in Replies :
             IF site \in {"switch", "active"} /\ r = "not_text"
             THEN \E pc \in Caught(call, site, "Exception") : Goes(At(call, pc))
             ELSE IF site \in {"switch", "active"} /\ r = "marker"
             THEN \E q \in Replies \ {"marker"} :
                     Goes([At(call, site \o "_send") EXCEPT !.reply = q])
             ELSE Goes([At(call, site \o "_send") EXCEPT !.reply = r])
       \/ \E kind \in ErrorKinds : \E pc \in Caught(call, site, kind) :
             Goes(Raising(At(call, pc)))

\* send_whatsapp_message (lines 973-1033): validate_and_sanitize_response
\* raises on a reply that is not a string; without credentials nothing is
\* sent and the call returns; the transport delivers or raises HTTPError
Send(site) ==
    /\ call.pc = site \o "_send"
    /\ IF call.reply = "not_text"
       THEN \E pc \in Caught(call, site, "Exception") : Goes(At(call, pc))
       ELSE IF ~call.configured
       THEN Goes(At(call, OnSent(site)))
       ELSE \/ /\ call.sent < MaxReplies
               /\ Goes([At(call, OnSent(site)) EXCEPT !.sent = @ + 1])
            \/ \E pc \in Caught(call, site, "Exception") :
                  Goes([At(call, pc) EXCEPT !.failed = TRUE])

\* lines 518-608: extract_intent, then the clarification question when the
\* classifier is confused and the user is in no flow
ExtractIntent ==
    /\ call.pc = "extract_intent"
    /\ \/ \E confused \in BOOLEAN :
             IF ~call.awaiting /\ confused /\ call.current_flow = None
             THEN Goes([At(call, "clarify_send") EXCEPT !.reply = "text"])
             ELSE Goes(At(call, "route"))
       \/ \E kind \in ErrorKinds : Goes(Raising(At(call, Outer(kind))))

\* lines 610-834: route_to_flow, or detect_flow_switch when it raises
\* FlowRoutingError; then the switch, the active flow, or Step 6
Route ==
    /\ call.pc = "route"
    /\ \/ \E t \in RouteTargets, should_switch \in BOOLEAN, fallback \in BOOLEAN :
             LET routed == IF fallback THEN None ELSE t
                 wanted == IF fallback \/ should_switch THEN t ELSE None
                 c == [call EXCEPT !.routing_target = routed]
             IN  IF fallback /\ t \notin VALID_FLOWS \cup {None} THEN FALSE
                 ELSE IF wanted # None /\ wanted # call.current_flow
                         /\ wanted \in VALID_FLOWS
                 THEN Goes(At(c, "switch_handler"))
                 ELSE IF wanted # None /\ wanted # call.current_flow
                 THEN Goes(At(c, Step6(c)))
                 ELSE IF call.current_flow # None
                 THEN Goes(At(c, "active_handler"))
                 ELSE Goes(At(c, Step6(c)))
       \/ \E kind \in ErrorKinds \ {"FlowRoutingError"} :
             Goes(Raising(At(call, Outer(kind))))

\* lines 892-929: is_car_related_llm (its exceptions are caught at line 896)
\* and generate_response
Generate ==
    /\ call.pc = "generic"
    /\ \/ \E r \in Replies : Goes([At(call, "generic_send") EXCEPT !.reply = r])
       \/ Goes(Raising([At(call, "generic_fallback_send") EXCEPT !.reply = "text"]))
       \/ \E kind \in ErrorKinds \ {"ResponseGenerationError"} :
             Goes(Raising(At(call, Outer(kind))))

ReplyNext ==
    \/ Enter
    \/ \E site \in HandlerSites : CallHandler(site)
    \/ \E site \in HandlerSites \cup {"clarify", "generic", "generic_fallback",
                                       "intent_fallback", "value_fallback",
                                       "last_resort"} : Send(site)
    \/ ExtractIntent
    \/ Route
    \/ Generate

SpecReply == ReplyInit /\ [][ReplyNext]_vars

\* every call made returns or raises, and the coroutine is scheduled again
SpecReplyLive == SpecReply /\ WF_vars(ReplyNext)

Terminated == call.pc \in {"returned", "raised"}

\* credentials are configured and no send failed in transport
TransportWorked == call.configured /\ ~call.failed

C38_RaisedOnFailedSend == call.pc = "raised" /\ call.failed

\* C38: no credentials: the run returned and nothing was sent
C38_SilentWithoutCredentials ==
    call.pc = "returned" /\ ~call.configured /\ call.sent = 0

\* C38: a send failed in transport and a later one was delivered
C38_SecondAttemptDelivered == call.failed /\ call.sent = 1 /\ call.pc = "returned"

=============================================================================
